---------------------------- MODULE Spec2Model ----------------------------
(***************************************************************************)
(* A model of the request-proxying service worker                          *)
(* (public/miniapp-service-worker.js) and of the page-side relay           *)
(* (src/composables/sdkService.ts) of the bshorts mini-app.                *)
(*                                                                         *)
(* The worker keeps one table, pendingRequests, keyed by requestId.  Each  *)
(* intercepted fetch that the classifier does not skip registers the two   *)
(* continuations of its promise in the table, asks for the window clients, *)
(* arms a 30000 ms timer and waits for a FETCH_RESPONSE message.           *)
(***************************************************************************)
EXTENDS Integers, Sequences, FiniteSets, TLC

(***************************************************************************)
(* Bounds of the model.                                                    *)
(***************************************************************************)
\* Number of fetch events the page issues.
MaxFetch == 2
\* Number of clock ticks the model follows.
MaxTicks == 2
\* Number of messages the embedding parent posts to the page window.
MaxHostMsgs == 1
\* Number of calls of initServiceWorker the page makes.
MaxCalls == 3
\* The last millisecond the clock of the LRU store reaches.
MaxCacheNow == 4
\* Number of calls of SdkService.init the application makes.
MaxInits == 2
\* Number of calls of the other public methods of SdkService it makes.
MaxInvocations == 2
\* Number of writes of the key "__proto__" to the LRU store that are followed.
MaxProtoWrites == 1

(***************************************************************************)
(* Program constants.                                                      *)
(***************************************************************************)
\* setTimeout(..., 30000)
TIMEOUT_MS == 30000
\* Number.parseInt(url.port) > 1024
DEV_PORT_MIN == 1024
\* part.length > 2
SIGNIFICANT_LABEL_LEN == 2
\* intersection.length > 1
SHARED_LABELS_MIN == 1

\* The clock advances one timeout period at a time: what happens between two
\* ticks happens less than 30000 ms after the first.
TickMs == TIMEOUT_MS
MaxNow == MaxTicks * TickMs

(***************************************************************************)
(* String helpers: the JavaScript String methods the classifier uses.      *)
(***************************************************************************)
StartsWith(s, p) == Len(p) <= Len(s) /\ SubSeq(s, 1, Len(p)) = p

EndsWith(s, p) == Len(p) <= Len(s) /\ SubSeq(s, Len(s) - Len(p) + 1, Len(s)) = p

Includes(s, p) ==
  \E i \in 1..(Len(s) - Len(p) + 1) : SubSeq(s, i, i + Len(p) - 1) = p

\* s.split('.')
RECURSIVE SplitDot(_)
SplitDot(s) ==
  LET dots == {i \in 1..Len(s) : SubSeq(s, i, i) = "."}
  IN IF dots = {} THEN <<s>>
     ELSE LET i == CHOOSE j \in dots : \A k \in dots : j <= k
          IN <<SubSeq(s, 1, i - 1)>> \o SplitDot(SubSeq(s, i + 1, Len(s)))

\* The first place where sep occurs in s, 0 if it does not.
IndexOf(s, sep) ==
  LET at == {i \in 1..(Len(s) - Len(sep) + 1) : SubSeq(s, i, i + Len(sep) - 1) = sep}
  IN IF at = {} THEN 0 ELSE CHOOSE i \in at : \A j \in at : i <= j

\* s.split(sep) for a separator that is not empty.
RECURSIVE Split(_, _)
Split(s, sep) ==
  LET i == IndexOf(s, sep)
  IN IF i = 0 THEN <<s>>
     ELSE <<SubSeq(s, 1, i - 1)>> \o Split(SubSeq(s, i + Len(sep), Len(s)), sep)

\* parts.join(sep)
RECURSIVE Join(_, _)
Join(parts, sep) ==
  IF Len(parts) = 0 THEN ""
  ELSE IF Len(parts) = 1 THEN parts[1]
  ELSE parts[1] \o sep \o Join(Tail(parts), sep)

SeqRange(q) == {q[i] : i \in 1..Len(q)}

DigitValue(c) == CHOOSE d \in 0..9 : SubSeq("0123456789", d + 1, d + 1) = c

\* Number.parseInt on a string of decimal digits (URL.port holds nothing else).
RECURSIVE ParseInt(_)
ParseInt(s) ==
  IF Len(s) = 0 THEN 0
  ELSE 10 * ParseInt(SubSeq(s, 1, Len(s) - 1)) + DigitValue(SubSeq(s, Len(s), Len(s)))

(***************************************************************************)
(* URLs.  A parsed URL is a record of the fields the worker reads.         *)
(***************************************************************************)
Url(protocol, hostname, port, pathname) ==
  [protocol |-> protocol, hostname |-> hostname, port |-> port, pathname |-> pathname]

\* IsHttp taking ftp: for a network scheme as well.
IsHttp_OrFtp(url) ==
  url.protocol = "http:" \/ url.protocol = "https:" \/ url.protocol = "ftp:"

IsHttp(url) == url.protocol = "http:" \/ url.protocol = "https:"

\* The origin written at the head of the path of a blob: URL
\* (blob:https://host/uuid): what precedes the first "/" after the scheme.
PathOrigin(path) ==
  LET start == IF StartsWith(path, "https://") THEN 9 ELSE 8
      slashes == {i \in start..Len(path) : SubSeq(path, i, i) = "/"}
  IN IF slashes = {} THEN path
     ELSE SubSeq(path, 1, (CHOOSE i \in slashes : \A j \in slashes : i <= j) - 1)

\* URL.origin: scheme, host and port of an http(s) URL, the origin of the
\* http(s) URL inside a blob: URL, "null" otherwise.
Origin(url) ==
  IF IsHttp(url)
  THEN url.protocol \o "//" \o url.hostname
         \o (IF url.port = "" THEN "" ELSE ":" \o url.port)
  ELSE IF /\ url.protocol = "blob:"
          /\ StartsWith(url.pathname, "https://") \/ StartsWith(url.pathname, "http://")
    THEN PathOrigin(url.pathname)
  ELSE "null"

\* URL.href
Href(url) ==
  IF IsHttp(url) THEN Origin(url) \o url.pathname
  ELSE url.protocol \o url.pathname

\* location.origin of the worker.
SelfOrigin == "https://miniapp.example"

\* The outcome of reading window.parent.location.href: a URL, or a throw.
ParentOf(url) == [available |-> TRUE, url |-> url]
NoParent == [available |-> FALSE, url |-> Url("", "", "", "")]

(***************************************************************************)
(* shouldSkipRequest(url): TRUE when the fetch is left to the network.     *)
(***************************************************************************)
bastyonDomains == <<"bastyon.com", "pocketnet.app", "localhost">>

\* skipDomains with one more domain.
skipDomains_Wide ==
  <<"localhost", "127.0.0.1", "0.0.0.0", "bastyon.com", "pocketnet.app", "example.com">>

\* skipDomains with the platform domains only.
skipDomains_PlatformOnly == <<"bastyon.com", "pocketnet.app">>

skipDomains == <<"localhost", "127.0.0.1", "0.0.0.0", "bastyon.com", "pocketnet.app">>

\* SomeIncluded comparing the whole hostname instead of looking for a substring.
SomeIncluded_Exact(domains, hostname) ==
  \E i \in 1..Len(domains) : hostname = domains[i]

SomeIncluded(domains, hostname) ==
  \E i \in 1..Len(domains) : Includes(hostname, domains[i])

\* The body of the try block, for a parent URL that could be read.
ParentTryMatches(url, parentUrl) ==
  \/ Origin(url) = Origin(parentUrl)
  \/ url.hostname = parentUrl.hostname
  \/ StartsWith(Href(url), Origin(parentUrl))

\* parentParts.filter(part => part.length > 2 && urlParts.includes(part))
Intersection(parentParts, urlParts) ==
  LET Keep(part) == Len(part) > SIGNIFICANT_LABEL_LEN /\ part \in SeqRange(urlParts)
  IN SelectSeq(parentParts, Keep)

\* ParentLabelsMatch without the two endsWith tests.
ParentLabelsMatch_NoSubdomain(url, parentUrl) ==
  Len(Intersection(SplitDot(parentUrl.hostname), SplitDot(url.hostname)))
    > SHARED_LABELS_MIN

\* The if (parentUrl) block.
ParentLabelsMatch(url, parentUrl) ==
  \/ Len(Intersection(SplitDot(parentUrl.hostname), SplitDot(url.hostname)))
       > SHARED_LABELS_MIN
  \/ EndsWith(url.hostname, "." \o parentUrl.hostname)
  \/ EndsWith(parentUrl.hostname, "." \o url.hostname)

\* shouldSkipRequest without its first test.
shouldSkipRequest_NoOwnOrigin(url, parent) ==
  IF ~IsHttp(url) THEN TRUE
  ELSE IF parent.available /\ ParentTryMatches(url, parent.url) THEN TRUE
  ELSE IF ~parent.available /\ SomeIncluded(bastyonDomains, url.hostname) THEN TRUE
  ELSE IF parent.available /\ ParentLabelsMatch(url, parent.url) THEN TRUE
  ELSE IF Includes(url.pathname, "service-worker") \/ Includes(url.pathname, "sw.js")
    THEN TRUE
  ELSE IF \/ StartsWith(url.protocol, "chrome-extension:")
          \/ StartsWith(url.protocol, "moz-extension:")
          \/ StartsWith(url.protocol, "safari-extension:") THEN TRUE
  ELSE IF \/ StartsWith(url.protocol, "blob:")
          \/ StartsWith(url.protocol, "data:")
          \/ StartsWith(url.protocol, "file:") THEN TRUE
  ELSE IF /\ url.hostname = "localhost"
          /\ url.port # ""
          /\ ParseInt(url.port) > DEV_PORT_MIN THEN TRUE
  ELSE IF SomeIncluded(skipDomains, url.hostname) THEN TRUE
  ELSE FALSE

\* shouldSkipRequest without the test of the path.
shouldSkipRequest_NoWorkerPath(url, parent) ==
  IF Origin(url) = SelfOrigin THEN TRUE
  ELSE IF ~IsHttp(url) THEN TRUE
  ELSE IF parent.available /\ ParentTryMatches(url, parent.url) THEN TRUE
  ELSE IF ~parent.available /\ SomeIncluded(bastyonDomains, url.hostname) THEN TRUE
  ELSE IF parent.available /\ ParentLabelsMatch(url, parent.url) THEN TRUE
  ELSE IF \/ StartsWith(url.protocol, "chrome-extension:")
          \/ StartsWith(url.protocol, "moz-extension:")
          \/ StartsWith(url.protocol, "safari-extension:") THEN TRUE
  ELSE IF \/ StartsWith(url.protocol, "blob:")
          \/ StartsWith(url.protocol, "data:")
          \/ StartsWith(url.protocol, "file:") THEN TRUE
  ELSE IF /\ url.hostname = "localhost"
          /\ url.port # ""
          /\ ParseInt(url.port) > DEV_PORT_MIN THEN TRUE
  ELSE IF SomeIncluded(skipDomains, url.hostname) THEN TRUE
  ELSE FALSE

shouldSkipRequest(url, parent) ==
  IF Origin(url) = SelfOrigin THEN TRUE
  ELSE IF ~IsHttp(url) THEN TRUE
  ELSE IF parent.available /\ ParentTryMatches(url, parent.url) THEN TRUE
  ELSE IF ~parent.available /\ SomeIncluded(bastyonDomains, url.hostname) THEN TRUE
  ELSE IF parent.available /\ ParentLabelsMatch(url, parent.url) THEN TRUE
  ELSE IF Includes(url.pathname, "service-worker") \/ Includes(url.pathname, "sw.js")
    THEN TRUE
  ELSE IF \/ StartsWith(url.protocol, "chrome-extension:")
          \/ StartsWith(url.protocol, "moz-extension:")
          \/ StartsWith(url.protocol, "safari-extension:") THEN TRUE
  ELSE IF \/ StartsWith(url.protocol, "blob:")
          \/ StartsWith(url.protocol, "data:")
          \/ StartsWith(url.protocol, "file:") THEN TRUE
  ELSE IF /\ url.hostname = "localhost"
          /\ url.port # ""
          /\ ParseInt(url.port) > DEV_PORT_MIN THEN TRUE
  ELSE IF SomeIncluded(skipDomains, url.hostname) THEN TRUE
  ELSE FALSE

(***************************************************************************)
(* The message protocol.  Every message is a record of the same shape; the *)
(* fields a message type does not carry hold a placeholder.                *)
(***************************************************************************)
\* `req_${Date.now()}_${Math.random().toString(36).substr(2, 9)}`
MakeRequestId(ms, rnd) == <<"req", ms, rnd>>

\* The suffixes Math.random() produces in the model.
RandomSuffixes == {"k3x9", "p0qz"}

NoId == <<"req", -1, "">>
\* An id the worker never issues.
BogusId == <<"req", 0, "never">>

NoData == [defined |-> FALSE, status |-> 0, statusText |-> "", headers |-> {}, body |-> <<>>]

ResponseData(status, statusText, headers, body) ==
  [defined |-> TRUE, status |-> status, statusText |-> statusText,
   headers |-> headers, body |-> body]

NoRequest == [url |-> "", method |-> "", body |-> <<>>, hasBody |-> FALSE]

FetchRequest(id, request) ==
  [type |-> "FETCH_REQUEST", requestId |-> id, success |-> FALSE,
   data |-> NoData, error |-> "", request |-> request]

FetchResponse(id, success, data, error) ==
  [type |-> "FETCH_RESPONSE", requestId |-> id, success |-> success,
   data |-> data, error |-> error, request |-> NoRequest]

\* A message of another protocol sharing the channel.
OtherMessage ==
  [type |-> "SDK_EVENT", requestId |-> NoId, success |-> FALSE,
   data |-> NoData, error |-> "", request |-> NoRequest]

NoMessage ==
  [type |-> "NONE", requestId |-> NoId, success |-> FALSE,
   data |-> NoData, error |-> "", request |-> NoRequest]

(***************************************************************************)
(* new Response(new Uint8Array(data.body), {status, statusText, headers}). *)
(* The constructor throws a RangeError for a status outside 200..599 and a *)
(* TypeError for a body given with a null-body status; reading data.body   *)
(* of an absent data throws a TypeError.                                   *)
(***************************************************************************)
NullBodyStatus == {101, 103, 204, 205, 304}

\* new Uint8Array(array): each element modulo 2^8.
Uint8Array(body) == [i \in 1..Len(body) |-> body[i] % 256]

ResponseThrows(data) ==
  \/ ~data.defined
  \/ data.status < 200
  \/ data.status > 599
  \/ data.status \in NullBodyStatus

NewResponse(data) ==
  [status |-> data.status, statusText |-> data.statusText,
   headers |-> data.headers, body |-> Uint8Array(data.body)]

NoResponse == [status |-> 0, statusText |-> "", headers |-> {}, body |-> <<>>]

(***************************************************************************)
(* The promise handleRequest returns: settled at most once, by the first   *)
(* call of resolve or reject.                                              *)
(***************************************************************************)
Pending == [kind |-> "pending", response |-> NoResponse, error |-> ""]
Resolved(response) == [kind |-> "resolved", response |-> response, error |-> ""]
Rejected(message) == [kind |-> "rejected", response |-> NoResponse, error |-> message]

Settle(out, f, result) ==
  IF out[f] = Pending THEN [out EXCEPT ![f] = result] ELSE out

\* request.resolve(response)
Resolve(out, f, response) == Settle(out, f, Resolved(response))

\* request.reject(new Error(message))
Reject(out, f, message) == Settle(out, f, Rejected(message))

(***************************************************************************)
(* Map operations on pendingRequests.                                      *)
(***************************************************************************)
MapSet(m, k, v) == [x \in DOMAIN m \cup {k} |-> IF x = k THEN v ELSE m[x]]

MapDelete(m, k) == [x \in DOMAIN m \ {k} |-> m[x]]

MapHas(m, k) == k \in DOMAIN m

EmptyMap == [x \in {} |-> 0]

(***************************************************************************)
(* State.                                                                  *)
(***************************************************************************)
VARIABLES
  now,              \* Date.now()
  nFetch,           \* fetch events handled so far
  stage,            \* per fetch: where handleRequest stands
  requestId,        \* per fetch: const requestId
  message,          \* per fetch: const message
  timer,            \* per fetch: the setTimeout timer
  deadline,         \* per fetch: when the timer is due
  outcome,          \* per fetch: the state of the returned promise
  pendingRequests,  \* requestId -> the fetch whose {resolve, reject} is stored
  clientList,       \* the window clients the worker controls
  windowClosed,     \* the page window is gone
  swToClient,       \* messages posted to the window client, not yet received
  hostInbox,        \* FETCH_REQUEST messages posted to the parent window
  toWindow,         \* messages posted to the page window, not yet received
  toWorker,         \* messages posted to the worker, not yet received
  nHostMsgs,        \* messages posted to the page window so far
  handled,          \* <<requestId, found>> of the FETCH_RESPONSE messages handled
  target,           \* the url that shouldSkipRequest is called with
  parentCtx,        \* what reading window.parent.location.href gives that call
  decision,         \* what the call returned: "none" before it returns
  swRegistration,   \* let swRegistration of sdkService.ts
  callStage,        \* per call of initServiceWorker: where it stands
  callResult,       \* per call of initServiceWorker: what it returned
  registerRequests, \* calls of navigator.serviceWorker.register so far
  swSupported,      \* navigator.serviceWorker is defined
  regActive,        \* registration.active is set
  rwUrl,            \* the argument of a call of urlRewriter
  rwResult,         \* what the call returned
  optMaxSize,       \* opts.maxSize in half units
  optTtlMs,         \* opts.ttlMs in half milliseconds
  proxyTarget,      \* the object behind the proxy: key -> value
  lruOrder,         \* the Map lruOrder as the sequence of its entries
  size,             \* let size of wrapRefAsLru
  cacheNow,         \* Date.now() of the page
  cacheResult,      \* what the last operation on the store returned
  laterVersion,     \* which SdkService is loaded: part_004 or sdkService.ts
  hostKind,         \* what window.BastyonSdk of the host offers
  sdk,              \* SdkService.sdk
  permissionCache,  \* SdkService.permissionCache as the set of its keys
  inits,            \* per call of init: where it stands and how it ended
  invocations,      \* per call of another public method: the same
  hostCalls         \* how often each function of the host SDK was called

\* The state of the proxy protocol.
protocolVars == <<now, nFetch, stage, requestId, message, timer, deadline, outcome,
                  pendingRequests, clientList, windowClosed, swToClient, hostInbox,
                  toWindow, toWorker, nHostMsgs, handled>>

\* The state of one call of shouldSkipRequest taken on its own.
classifierVars == <<target, parentCtx, decision>>

\* The state of the registration of the worker by the page.
registrationVars == <<swRegistration, callStage, callResult, registerRequests,
                      swSupported, regActive>>

\* The state of one call of urlRewriter.
rewriterVars == <<rwUrl, rwResult>>

\* The state of one store wrapped by wrapRefAsLru.
cacheVars == <<optMaxSize, optTtlMs, proxyTarget, lruOrder, size, cacheNow, cacheResult>>

\* The state of the class SdkService and of the host SDK behind it.
sdkVars == <<laterVersion, hostKind, sdk, permissionCache, inits, invocations, hostCalls>>

vars == <<protocolVars, classifierVars, registrationVars, rewriterVars, cacheVars, sdkVars>>

\* What the steps of one part of the program leave alone.
notProtocol == <<classifierVars, registrationVars, rewriterVars, cacheVars, sdkVars>>
notClassifier == <<protocolVars, registrationVars, rewriterVars, cacheVars, sdkVars>>
notRegistration == <<protocolVars, classifierVars, rewriterVars, cacheVars, sdkVars>>
notRewriter == <<protocolVars, classifierVars, registrationVars, cacheVars, sdkVars>>
notCache == <<protocolVars, classifierVars, registrationVars, rewriterVars, sdkVars>>
notSdk == <<protocolVars, classifierVars, registrationVars, rewriterVars, cacheVars>>

Fetches == 1..MaxFetch

\* The one window the worker can control.
Window == "window"

\* window.parent.location.href read inside the worker.
WorkerParent == NoParent

\* The worker before its first event.
ProtocolInit ==
  /\ now = 0
  /\ nFetch = 0
  /\ stage = [f \in Fetches |-> "none"]
  /\ requestId = [f \in Fetches |-> NoId]
  /\ message = [f \in Fetches |-> NoMessage]
  /\ timer = [f \in Fetches |-> "unset"]
  /\ deadline = [f \in Fetches |-> 0]
  /\ outcome = [f \in Fetches |-> Pending]
  /\ pendingRequests = EmptyMap
  /\ clientList = {}
  /\ windowClosed = FALSE
  /\ swToClient = {}
  /\ hostInbox = {}
  /\ toWindow = {}
  /\ toWorker = {}
  /\ nHostMsgs = 0
  /\ handled = {}

NoUrl == Url("", "", "", "")

\* No call of shouldSkipRequest taken on its own.
ClassifierIdle ==
  /\ target = NoUrl
  /\ parentCtx = NoParent
  /\ decision = "none"

\* What a call has come to: nothing yet, a value returned, an error thrown.
NotReturned == [kind |-> "none", value |-> ""]
Returned(value) == [kind |-> "returned", value |-> value]
Thrown(error) == [kind |-> "thrown", value |-> error]

\* No call of urlRewriter.
RewriterIdle ==
  /\ rwUrl = ""
  /\ rwResult = NotReturned

\* The return value undefined.
Undefined == "undefined"

\* No store wrapped.
CacheIdle ==
  /\ optMaxSize = 0
  /\ optTtlMs = 0
  /\ proxyTarget = EmptyMap
  /\ lruOrder = <<>>
  /\ size = 0
  /\ cacheNow = 0
  /\ cacheResult = Undefined

\* The permissions the application asks for.
Permissions == {"sign", "account"}

\* The functions of the host SDK that SdkService calls; a check or a
\* request is counted for each permission it is about.
PlainFunctions ==
  {"emit", "openExternalLink", "rpc", "on", "off", "get.appinfo"}
    \cup {"permissions.check:" \o p : p \in Permissions}
    \cup {"permissions.request:" \o p : p \in Permissions}
ExtendedFunctions ==
  {"init", "serviceWorker.register", "sign", "action", "get.account",
   "helpers.channel", "open.post"}
HostFunctions == PlainFunctions \cup ExtendedFunctions

InitCalls == 1..MaxInits
Invocations == 1..MaxInvocations

\* private static sdk: BastyonSdk | null
NoSdk == "null"
TheSdk == "sdk"

\* An options object of rpc without cachetime.
NoOptions == [cachetime |-> <<>>]

\* A call of init that was not made yet.
NoInit == [stage |-> "idle", outcome |-> "none"]

\* A call of another method that was not made yet.
NoInvocation ==
  [method |-> "", stage |-> "idle", outcome |-> "none", attempt |-> 0,
   perms |-> <<>>, idx |-> 0, missing |-> <<>>,
   options |-> NoOptions, opts |-> NoOptions, lastErr |-> ""]

\* The class SdkService as loaded, no method called.
SdkLoaded ==
  /\ sdk = NoSdk
  /\ permissionCache = {}
  /\ inits = [c \in InitCalls |-> NoInit]
  /\ invocations = [i \in Invocations |-> NoInvocation]
  /\ hostCalls = [f \in HostFunctions |-> 0]

\* The later SdkService, in a host that offers every function, unused.
SdkIdle ==
  /\ laterVersion = TRUE
  /\ hostKind = "extended"
  /\ SdkLoaded

Calls == 1..MaxCalls

NoRegistration == "null"
\* The ServiceWorkerRegistration of the scope of the page.
TheRegistration == "registration"

\* sdkService.ts loaded, initServiceWorker not yet called.
RegistrationIdle ==
  /\ swRegistration = NoRegistration
  /\ callStage = [c \in Calls |-> "idle"]
  /\ callResult = [c \in Calls |-> "none"]
  /\ registerRequests = 0
  /\ regActive = FALSE

\* initServiceWorker not called, in a browser that has service workers.
RegistrationOff ==
  /\ RegistrationIdle
  /\ swSupported = TRUE

Init ==
  /\ ProtocolInit
  /\ ClassifierIdle
  /\ RegistrationOff
  /\ RewriterIdle
  /\ CacheIdle
  /\ SdkIdle

(***************************************************************************)
(* Inputs of the model.                                                    *)
(***************************************************************************)
UrlApi == Url("https:", "api.example.com", "", "/users/1")
UrlOwn == Url("https:", "miniapp.example", "", "/assets/app.js")

FetchUrls == {UrlApi, UrlOwn}

Methods == {"GET", "POST"}

\* The payloads the embedding parent answers with.
Data200 == ResponseData(200, "OK", {<<"content-type", "application/json">>}, <<123, 125>>)
Data204 == ResponseData(204, "No Content", {}, <<>>)

HostData == {Data200, Data204}

HostErrors == {"Tor request failed"}

\* The request ids a message to the page window can carry: those of the
\* requests relayed to the parent, and one the worker never issued.
KnownIds == {r.requestId : r \in hostInbox} \cup {BogusId}

HostMessages ==
  {FetchResponse(id, TRUE, d, "") : id \in KnownIds, d \in HostData}
    \cup {FetchResponse(id, FALSE, NoData, e) : id \in KnownIds, e \in HostErrors}
    \cup {OtherMessage}

(***************************************************************************)
(* handleRequest(request)                                                  *)
(***************************************************************************)
\* PromiseExecutor without the setTimeout call.
PromiseExecutor_NoTimer(f, id) ==
  /\ pendingRequests' = MapSet(pendingRequests, id, f)
  /\ stage' = [stage EXCEPT ![f] = "matching"]
  /\ UNCHANGED <<timer, deadline>>

\* The executor of the returned promise: pendingRequests.set, the call of
\* clients.matchAll and setTimeout.
PromiseExecutor(f, id) ==
  /\ pendingRequests' = MapSet(pendingRequests, id, f)
  /\ stage' = [stage EXCEPT ![f] = "matching"]
  /\ timer' = [timer EXCEPT ![f] = "armed"]
  /\ deadline' = [deadline EXCEPT ![f] = now + TIMEOUT_MS]

\* From the entry of handleRequest to its first suspension: the id is made,
\* and a request without a body goes on to build the message and the promise.
HandleRequest(f, url, method, rnd) ==
  LET id == MakeRequestId(now, rnd)
      hasBody == method # "GET" /\ method # "HEAD"
      request == [url |-> Href(url), method |-> method,
                  body |-> <<>>, hasBody |-> hasBody]
  IN /\ requestId' = [requestId EXCEPT ![f] = id]
     /\ message' = [message EXCEPT ![f] = FetchRequest(id, request)]
     /\ IF hasBody
        THEN /\ stage' = [stage EXCEPT ![f] = "reading"]
             /\ UNCHANGED <<pendingRequests, timer, deadline>>
        ELSE PromiseExecutor(f, id)

\* FetchEvent making the requestId before the classifier is asked.
FetchEvent_IdFirst(url, method, rnd) ==
  /\ nFetch < MaxFetch
  /\ now + TIMEOUT_MS <= MaxNow
  /\ LET f == nFetch + 1
     IN /\ nFetch' = f
        /\ IF shouldSkipRequest(url, WorkerParent)
           THEN /\ stage' = [stage EXCEPT ![f] = "bypassed"]
                /\ requestId' = [requestId EXCEPT ![f] = MakeRequestId(now, rnd)]
                /\ UNCHANGED <<message, pendingRequests, timer, deadline>>
           ELSE HandleRequest(f, url, method, rnd)
  /\ UNCHANGED <<now, outcome, clientList, windowClosed, swToClient, hostInbox, toWindow,
                 toWorker, nHostMsgs, handled>>
  /\ UNCHANGED notProtocol

\* addEventListener('fetch', ...)
FetchEvent(url, method, rnd) ==
  /\ nFetch < MaxFetch
  /\ now + TIMEOUT_MS <= MaxNow
  /\ LET f == nFetch + 1
     IN /\ nFetch' = f
        /\ IF shouldSkipRequest(url, WorkerParent)
           THEN /\ stage' = [stage EXCEPT ![f] = "bypassed"]
                /\ UNCHANGED <<requestId, message, pendingRequests, timer, deadline>>
           ELSE HandleRequest(f, url, method, rnd)
  /\ UNCHANGED <<now, outcome, clientList, windowClosed, swToClient, hostInbox, toWindow,
                 toWorker, nHostMsgs, handled>>
  /\ UNCHANGED notProtocol

\* await request.arrayBuffer() returns: the message is built and the promise made.
BodyRead(f) ==
  /\ stage[f] = "reading"
  /\ now + TIMEOUT_MS <= MaxNow
  /\ PromiseExecutor(f, requestId[f])
  /\ UNCHANGED <<now, nFetch, requestId, message, outcome, clientList, windowClosed, swToClient,
                 hostInbox, toWindow, toWorker, nHostMsgs, handled>>
  /\ UNCHANGED notProtocol

\* MatchAllThen without the else branch: nothing is done when no client exists.
MatchAllThen_Silent(f) ==
  /\ stage[f] = "matching"
  /\ IF Cardinality(clientList) > 0
     THEN /\ swToClient' = swToClient \cup {message[f]}
          /\ stage' = [stage EXCEPT ![f] = "posted"]
     ELSE /\ stage' = [stage EXCEPT ![f] = "noWindow"]
          /\ UNCHANGED swToClient
  /\ UNCHANGED <<now, nFetch, requestId, message, timer, deadline, outcome,
                 pendingRequests, clientList, windowClosed, hostInbox, toWindow,
                 toWorker, nHostMsgs, handled>>
  /\ UNCHANGED notProtocol

\* clients.matchAll({ type: 'window' }).then((clientList) => ...)
MatchAllThen(f) ==
  /\ stage[f] = "matching"
  /\ IF Cardinality(clientList) > 0
     THEN /\ swToClient' = swToClient \cup {message[f]}
          /\ stage' = [stage EXCEPT ![f] = "posted"]
          /\ UNCHANGED outcome
     ELSE /\ outcome' = Reject(outcome, f, "No windows available")
          /\ stage' = [stage EXCEPT ![f] = "noWindow"]
          /\ UNCHANGED swToClient
  /\ UNCHANGED <<now, nFetch, requestId, message, timer, deadline, pendingRequests,
                 clientList, windowClosed, hostInbox, toWindow, toWorker, nHostMsgs, handled>>
  /\ UNCHANGED notProtocol

\* OnTimeout without pendingRequests.delete(requestId).
OnTimeout_KeepEntry(f) ==
  /\ timer[f] = "armed"
  /\ now >= deadline[f]
  /\ timer' = [timer EXCEPT ![f] = "fired"]
  /\ outcome' = Reject(outcome, f, "Timeout")
  /\ UNCHANGED <<now, nFetch, stage, requestId, message, deadline, pendingRequests,
                 clientList, windowClosed, swToClient, hostInbox, toWindow,
                 toWorker, nHostMsgs, handled>>
  /\ UNCHANGED notProtocol

\* setTimeout(() => { pendingRequests.delete(requestId); reject(...) }, 30000)
OnTimeout(f) ==
  /\ timer[f] = "armed"
  /\ now >= deadline[f]
  /\ timer' = [timer EXCEPT ![f] = "fired"]
  /\ pendingRequests' = MapDelete(pendingRequests, requestId[f])
  /\ outcome' = Reject(outcome, f, "Timeout")
  /\ UNCHANGED <<now, nFetch, stage, requestId, message, deadline, clientList, windowClosed,
                 swToClient, hostInbox, toWindow, toWorker, nHostMsgs, handled>>
  /\ UNCHANGED notProtocol

(***************************************************************************)
(* addEventListener('message', ...) of the worker.                         *)
(***************************************************************************)
\* SettleRequest taking the oldest entry of the table instead of the one stored
\* under the message's requestId.
SettleRequest_Oldest(m) ==
  LET k == CHOOSE i \in DOMAIN pendingRequests :
             \A j \in DOMAIN pendingRequests : pendingRequests[i] <= pendingRequests[j]
      f == pendingRequests[k]
  IN IF m.success
     THEN IF ResponseThrows(m.data)
          THEN UNCHANGED <<outcome, pendingRequests>>
          ELSE /\ outcome' = Resolve(outcome, f, NewResponse(m.data))
               /\ pendingRequests' = MapDelete(pendingRequests, k)
     ELSE /\ outcome' = Reject(outcome, f, m.error)
          /\ pendingRequests' = MapDelete(pendingRequests, k)

\* The body of if (request): a throw of the Response constructor leaves the
\* listener before resolve and delete.
SettleRequest(m) ==
  LET f == pendingRequests[m.requestId]
  IN IF m.success
     THEN IF ResponseThrows(m.data)
          THEN UNCHANGED <<outcome, pendingRequests>>
          ELSE /\ outcome' = Resolve(outcome, f, NewResponse(m.data))
               /\ pendingRequests' = MapDelete(pendingRequests, m.requestId)
     ELSE /\ outcome' = Reject(outcome, f, m.error)
          /\ pendingRequests' = MapDelete(pendingRequests, m.requestId)

\* OnMessage settling the oldest entry when none is stored under the message's
\* requestId.
OnMessage_Fallback(m) ==
  /\ m \in toWorker
  /\ toWorker' = toWorker \ {m}
  /\ IF m.type = "FETCH_RESPONSE"
     THEN /\ handled' = handled \cup {<<m.requestId, MapHas(pendingRequests, m.requestId)>>}
          /\ IF MapHas(pendingRequests, m.requestId)
             THEN SettleRequest(m)
             ELSE IF DOMAIN pendingRequests # {}
                  THEN SettleRequest_Oldest(m)
                  ELSE UNCHANGED <<outcome, pendingRequests>>
     ELSE UNCHANGED <<handled, outcome, pendingRequests>>
  /\ UNCHANGED <<now, nFetch, stage, requestId, message, timer, deadline,
                 clientList, windowClosed, swToClient, hostInbox, toWindow, nHostMsgs>>
  /\ UNCHANGED notProtocol

OnMessage(m) ==
  /\ m \in toWorker
  /\ toWorker' = toWorker \ {m}
  /\ IF m.type = "FETCH_RESPONSE"
     THEN /\ handled' = handled \cup {<<m.requestId, MapHas(pendingRequests, m.requestId)>>}
          /\ IF MapHas(pendingRequests, m.requestId)
             THEN SettleRequest(m)
             ELSE UNCHANGED <<outcome, pendingRequests>>
     ELSE UNCHANGED <<handled, outcome, pendingRequests>>
  /\ UNCHANGED <<now, nFetch, stage, requestId, message, timer, deadline,
                 clientList, windowClosed, swToClient, hostInbox, toWindow, nHostMsgs>>
  /\ UNCHANGED notProtocol

(***************************************************************************)
(* The relay of the page (sdkService.ts).                                  *)
(***************************************************************************)
\* navigator.serviceWorker.controller of the page: the worker, once it has
\* claimed the page.
HasController == Window \in clientList

\* navigator.serviceWorker.addEventListener('message', ...)
RelayToParent(m) ==
  /\ Window \in clientList
  /\ m \in swToClient
  /\ swToClient' = swToClient \ {m}
  /\ hostInbox' = IF m.type = "FETCH_REQUEST" THEN hostInbox \cup {m} ELSE hostInbox
  /\ UNCHANGED <<now, nFetch, stage, requestId, message, timer, deadline, outcome,
                 pendingRequests, clientList, windowClosed, toWindow, toWorker, nHostMsgs, handled>>
  /\ UNCHANGED notProtocol

\* RelayToWorker without the test of the message type.
RelayToWorker_AnyType(m) ==
  /\ ~windowClosed
  /\ m \in toWindow
  /\ toWindow' = toWindow \ {m}
  /\ toWorker' = IF HasController THEN toWorker \cup {m} ELSE toWorker
  /\ UNCHANGED <<now, nFetch, stage, requestId, message, timer, deadline, outcome,
                 pendingRequests, clientList, windowClosed, swToClient, hostInbox, nHostMsgs,
                 handled>>
  /\ UNCHANGED notProtocol

\* window.addEventListener('message', ...): controller?.postMessage posts
\* nothing while the page has no controller.
RelayToWorker(m) ==
  /\ ~windowClosed
  /\ m \in toWindow
  /\ toWindow' = toWindow \ {m}
  /\ toWorker' = IF m.type = "FETCH_RESPONSE" /\ HasController
                 THEN toWorker \cup {m} ELSE toWorker
  /\ UNCHANGED <<now, nFetch, stage, requestId, message, timer, deadline, outcome,
                 pendingRequests, clientList, windowClosed, swToClient, hostInbox, nHostMsgs,
                 handled>>
  /\ UNCHANGED notProtocol

(***************************************************************************)
(* The environment: the embedding parent, the clock, the window.           *)
(***************************************************************************)
\* The parent (or any other frame) posts m to the page window.
HostPosts(m) ==
  /\ nHostMsgs < MaxHostMsgs
  /\ ~windowClosed
  /\ toWindow' = toWindow \cup {m}
  /\ nHostMsgs' = nHostMsgs + 1
  /\ UNCHANGED <<now, nFetch, stage, requestId, message, timer, deadline, outcome,
                 pendingRequests, clientList, windowClosed, swToClient, hostInbox, toWorker,
                 handled>>
  /\ UNCHANGED notProtocol

Tick ==
  /\ now + TickMs <= MaxNow
  /\ now' = now + TickMs
  /\ UNCHANGED <<nFetch, stage, requestId, message, timer, deadline, outcome,
                 pendingRequests, clientList, windowClosed, swToClient, hostInbox, toWindow,
                 toWorker, nHostMsgs, handled>>
  /\ UNCHANGED notProtocol

\* clients.claim(): the page becomes a window client of the worker.
ClientClaimed ==
  /\ clientList = {}
  /\ ~windowClosed
  /\ clientList' = {Window}
  /\ UNCHANGED windowClosed
  /\ UNCHANGED <<now, nFetch, stage, requestId, message, timer, deadline, outcome,
                 pendingRequests, swToClient, hostInbox, toWindow, toWorker,
                 nHostMsgs, handled>>
  /\ UNCHANGED notProtocol

\* The window closes: what was on its way to it is lost.
ClientClosed ==
  /\ clientList = {Window}
  /\ clientList' = {}
  /\ windowClosed' = TRUE
  /\ swToClient' = {}
  /\ toWindow' = {}
  /\ UNCHANGED <<now, nFetch, stage, requestId, message, timer, deadline, outcome,
                 pendingRequests, hostInbox, toWorker, nHostMsgs, handled>>
  /\ UNCHANGED notProtocol

(***************************************************************************)
(* The specifications.                                                     *)
(***************************************************************************)
Next ==
  \/ \E url \in FetchUrls, method \in Methods, rnd \in RandomSuffixes :
       FetchEvent(url, method, rnd)
  \/ \E f \in Fetches : BodyRead(f)
  \/ \E f \in Fetches : MatchAllThen(f)
  \/ \E f \in Fetches : OnTimeout(f)
  \/ \E m \in toWorker : OnMessage(m)
  \/ \E m \in swToClient : RelayToParent(m)
  \/ \E m \in toWindow : RelayToWorker(m)
  \/ \E m \in HostMessages : HostPosts(m)
  \/ Tick
  \/ ClientClaimed
  \/ ClientClosed

Spec == Init /\ [][Next]_vars

\* Time passes and a due timer fires.
Fairness ==
  /\ WF_vars(Tick)
  /\ \A f \in Fetches : WF_vars(OnTimeout(f))

FairSpec == Spec /\ Fairness

(***************************************************************************)
(* shouldSkipRequest on its own: one call, for a url and for what the read *)
(* of the parent's location gives.                                         *)
(***************************************************************************)
UrlOwnWorker == Url("https:", "miniapp.example", "", "/sw.js")
UrlOwnHttp == Url("http:", "miniapp.example", "", "/assets/app.js")
UrlOwnPort == Url("https:", "miniapp.example", "8443", "/assets/app.js")
UrlApiWorker == Url("https:", "api.example.com", "", "/sw.js")
UrlNews == Url("https:", "cdn.example.org", "", "/static/news.js")
UrlLoader == Url("https:", "cdn.example.org", "", "/lib/service-worker-loader.js")
UrlCdn == Url("https:", "cdn.example.org", "", "/lib/app.js")
UrlBastyon == Url("https:", "bastyon.com", "", "/js/lib/apps/sdk.js")
UrlPeertube == Url("https:", "peertube.pocketnet.app", "", "/api/v1/videos")
UrlNotBastyon == Url("https:", "notbastyon.com", "", "/track")
UrlLocalDev == Url("http:", "localhost", "3000", "/")
UrlLocalLow == Url("http:", "localhost", "81", "/")
UrlLocal == Url("http:", "localhost", "", "/")
UrlLoopback == Url("http:", "127.0.0.1", "8080", "/rpc")
UrlAnyAddr == Url("http:", "0.0.0.0", "", "/")
UrlParentHostPort == Url("https:", "shop.host.example", "8443", "/cart")
UrlParentSibling == Url("https:", "api.host.example", "", "/v1")
UrlParentChild == Url("https:", "sub.shop.host.example", "", "/api")
UrlParentAbove == Url("https:", "host.example", "", "/")
UrlOneLabel == Url("https:", "host.other.net", "", "/")
UrlShortChild == Url("https:", "b.a.io", "", "/x")
UrlShortOther == Url("https:", "c.io", "", "/x")
UrlMedia == Url("https:", "media.org", "", "/clip")
UrlBlobOwn == Url("blob:", "", "", "https://miniapp.example/5f1c")
UrlBlobOther == Url("blob:", "", "", "https://api.example.com/77aa")
UrlData == Url("data:", "", "", "text/plain,hi")
UrlFile == Url("file:", "", "", "/etc/hosts")
UrlChromeExt == Url("chrome-extension:", "abcdefgh", "", "/page.js")
UrlMozExt == Url("moz-extension:", "f00d", "", "/page.js")
UrlSafariExt == Url("safari-extension:", "com.example.ext", "", "/page.js")
UrlFtp == Url("ftp:", "files.example.com", "", "/pub/a.txt")

ClassifierUrls ==
  {UrlApi, UrlOwn, UrlOwnWorker, UrlOwnHttp, UrlOwnPort, UrlApiWorker, UrlNews,
   UrlLoader, UrlCdn, UrlBastyon, UrlPeertube, UrlNotBastyon, UrlLocalDev,
   UrlLocalLow, UrlLocal, UrlLoopback, UrlAnyAddr, UrlParentHostPort,
   UrlParentSibling, UrlParentChild, UrlParentAbove, UrlOneLabel, UrlShortChild,
   UrlShortOther, UrlMedia, UrlBlobOwn, UrlBlobOther, UrlData, UrlFile, UrlChromeExt,
   UrlMozExt, UrlSafariExt, UrlFtp}

ParentShop == Url("https:", "shop.host.example", "", "/app")
ParentShort == Url("https:", "a.io", "", "/")
ParentPlatform == Url("https:", "bastyon.com", "", "/index")
ParentApi == Url("http:", "api.example.com", "", "/")
ParentMedia == Url("https:", "media.media.net", "", "/")

\* What the read of window.parent.location.href gives: a URL, or a throw.
ParentContexts ==
  {NoParent, ParentOf(ParentShop), ParentOf(ParentShort), ParentOf(ParentPlatform),
   ParentOf(ParentApi), ParentOf(ParentMedia)}

ClassifierInit ==
  /\ ProtocolInit
  /\ RegistrationOff
  /\ target \in ClassifierUrls
  /\ parentCtx \in ParentContexts
  /\ decision = "none"
  /\ RewriterIdle
  /\ CacheIdle
  /\ SdkIdle

\* Classify letting the throw of the parent read leave the function.
Classify_Throws ==
  /\ decision = "none"
  /\ decision' = IF ~parentCtx.available THEN "error"
                 ELSE IF shouldSkipRequest(target, parentCtx) THEN "bypass" ELSE "proxy"
  /\ UNCHANGED <<target, parentCtx>>
  /\ UNCHANGED notClassifier

\* The call shouldSkipRequest(url) returns.
Classify ==
  /\ decision = "none"
  /\ decision' = IF shouldSkipRequest(target, parentCtx) THEN "bypass" ELSE "proxy"
  /\ UNCHANGED <<target, parentCtx>>
  /\ UNCHANGED notClassifier

ClassifierNext == Classify

ClassifierSpec == ClassifierInit /\ [][ClassifierNext]_vars

(***************************************************************************)
(* initServiceWorker and isServiceWorkerActive (sdkService.ts).            *)
(***************************************************************************)
RegistrationInit ==
  /\ ProtocolInit
  /\ ClassifierIdle
  /\ RegistrationIdle
  /\ swSupported \in BOOLEAN
  /\ RewriterIdle
  /\ CacheIdle
  /\ SdkIdle

\* InitServiceWorker letting the TypeError of an undefined
\* navigator.serviceWorker leave the function.
InitServiceWorker_Throws(c) ==
  /\ callStage[c] = "idle"
  /\ IF swRegistration # NoRegistration
     THEN /\ callStage' = [callStage EXCEPT ![c] = "returned"]
          /\ callResult' = [callResult EXCEPT ![c] = swRegistration]
          /\ UNCHANGED registerRequests
     ELSE IF ~swSupported
     THEN /\ callStage' = [callStage EXCEPT ![c] = "returned"]
          /\ callResult' = [callResult EXCEPT ![c] = "thrown"]
          /\ UNCHANGED registerRequests
     ELSE /\ callStage' = [callStage EXCEPT ![c] = "awaiting"]
          /\ registerRequests' = registerRequests + 1
          /\ UNCHANGED callResult
  /\ UNCHANGED <<swRegistration, swSupported, regActive>>
  /\ UNCHANGED notRegistration

\* initServiceWorker() up to its await: the stored registration is returned,
\* or register is called; the TypeError of an undefined navigator.serviceWorker
\* is caught and null returned.
InitServiceWorker(c) ==
  /\ callStage[c] = "idle"
  /\ IF swRegistration # NoRegistration
     THEN /\ callStage' = [callStage EXCEPT ![c] = "returned"]
          /\ callResult' = [callResult EXCEPT ![c] = swRegistration]
          /\ UNCHANGED registerRequests
     ELSE IF ~swSupported
     THEN /\ callStage' = [callStage EXCEPT ![c] = "returned"]
          /\ callResult' = [callResult EXCEPT ![c] = NoRegistration]
          /\ UNCHANGED registerRequests
     ELSE /\ callStage' = [callStage EXCEPT ![c] = "awaiting"]
          /\ registerRequests' = registerRequests + 1
          /\ UNCHANGED callResult
  /\ UNCHANGED <<swRegistration, swSupported, regActive>>
  /\ UNCHANGED notRegistration

\* The promise of register is fulfilled: the registration is stored and returned.
RegisterResolves(c) ==
  /\ callStage[c] = "awaiting"
  /\ swRegistration' = TheRegistration
  /\ callStage' = [callStage EXCEPT ![c] = "returned"]
  /\ callResult' = [callResult EXCEPT ![c] = TheRegistration]
  /\ UNCHANGED <<registerRequests, swSupported, regActive>>
  /\ UNCHANGED notRegistration

\* The promise of register is rejected: the catch block returns null.
RegisterRejects(c) ==
  /\ callStage[c] = "awaiting"
  /\ callStage' = [callStage EXCEPT ![c] = "returned"]
  /\ callResult' = [callResult EXCEPT ![c] = NoRegistration]
  /\ UNCHANGED <<swRegistration, registerRequests, swSupported, regActive>>
  /\ UNCHANGED notRegistration

\* The registered worker becomes the active worker of the registration.
WorkerActivates ==
  /\ swRegistration = TheRegistration
  /\ ~regActive
  /\ regActive' = TRUE
  /\ UNCHANGED <<swRegistration, callStage, callResult, registerRequests, swSupported>>
  /\ UNCHANGED notRegistration

\* !!swRegistration?.active
isServiceWorkerActive == swRegistration # NoRegistration /\ regActive

RegistrationNext ==
  \/ \E c \in Calls : InitServiceWorker(c)
  \/ \E c \in Calls : RegisterResolves(c)
  \/ \E c \in Calls : RegisterRejects(c)
  \/ WorkerActivates

RegistrationSpec == RegistrationInit /\ [][RegistrationNext]_vars

(***************************************************************************)
(* urlRewriter (helpers/urlRewriter.ts).                                   *)
(***************************************************************************)
\* const servers = []
servers == <<>>

NoServer == [host |-> "", ip |-> "", found |-> FALSE]

\* servers.find(s => s.host === hostip || s.ip === hostip)
getServer(hostip) ==
  LET hits == {i \in 1..Len(servers) :
                 servers[i].host = hostip \/ servers[i].ip = hostip}
  IN IF hits = {} THEN NoServer
     ELSE LET i == CHOOSE k \in hits : \A j \in hits : k <= j
          IN [host |-> servers[i].host, ip |-> servers[i].ip, found |-> TRUE]

\* urlRewriter without the test hostip.includes('.').
urlRewriter_NoDotTest(url) ==
  IF url = "" THEN Returned(url)
  ELSE
    LET parts == Split(url, "://")
        hasProtocol == Len(parts) > 1
        secure == IF hasProtocol THEN parts[1] = "https" \/ parts[1] = "wss" ELSE TRUE
        oldProtocol == IF ~hasProtocol THEN "http"
                       ELSE IF parts[1] = "https" THEN "http"
                       ELSE IF parts[1] = "wss" THEN "ws"
                       ELSE IF parts[1] = "." THEN ""
                       ELSE parts[1]
        rest == Join(IF hasProtocol THEN Tail(parts) ELSE parts, "")
        restParts == Split(rest, "/")
        hostip == restParts[1]
        path == Join(Tail(restParts), "/")
        server == getServer(hostip)
        formattedPath == IF path # "" THEN "/" \o path ELSE ""
    IN IF ~server.found
       THEN Returned((IF secure THEN oldProtocol \o "s" ELSE oldProtocol)
                       \o "://" \o hostip \o formattedPath)
       ELSE Returned(oldProtocol \o "://" \o server.ip \o formattedPath)

\* urlRewriter(url): every statement after the first test is inside the try
\* block, whose catch returns url.
urlRewriter(url) ==
  IF url = "" THEN Returned(url)
  ELSE
    LET parts == Split(url, "://")
        hasProtocol == Len(parts) > 1
        secure == IF hasProtocol THEN parts[1] = "https" \/ parts[1] = "wss" ELSE TRUE
        oldProtocol == IF ~hasProtocol THEN "http"
                       ELSE IF parts[1] = "https" THEN "http"
                       ELSE IF parts[1] = "wss" THEN "ws"
                       ELSE IF parts[1] = "." THEN ""
                       ELSE parts[1]
        rest == Join(IF hasProtocol THEN Tail(parts) ELSE parts, "")
        restParts == Split(rest, "/")
        hostip == restParts[1]
        path == Join(Tail(restParts), "/")
        server == getServer(hostip)
        formattedPath == IF path # "" THEN "/" \o path ELSE ""
    IN IF ~server.found
       THEN IF ~Includes(hostip, ".") THEN Returned(url)
            ELSE Returned((IF secure THEN oldProtocol \o "s" ELSE oldProtocol)
                            \o "://" \o hostip \o formattedPath)
       ELSE Returned(oldProtocol \o "://" \o server.ip \o formattedPath)

\* The urls the function is called with: a scheme, a host and what follows.
RewriterSchemes == {"", "http://", "https://", "ws://", "wss://", "ftp://", ".://"}
RewriterHosts ==
  {"", "localhost", "localhost:3000", "peertube", "a.io", "cdn.example.org",
   "192.168.1.100"}
RewriterTails == {"", "/", "/a/b.png", "/hls/master.m3u8?t=1", "?v=1.0/"}

RewriterUrls ==
  {s \o h \o t : s \in RewriterSchemes, h \in RewriterHosts, t \in RewriterTails}

RewriterInit ==
  /\ ProtocolInit
  /\ ClassifierIdle
  /\ RegistrationOff
  /\ rwUrl \in RewriterUrls
  /\ rwResult = NotReturned
  /\ CacheIdle
  /\ SdkIdle

\* The call urlRewriter(rwUrl) returns.
Rewrite ==
  /\ rwResult = NotReturned
  /\ rwResult' = urlRewriter(rwUrl)
  /\ UNCHANGED rwUrl
  /\ UNCHANGED notRewriter

RewriterNext == Rewrite

RewriterSpec == RewriterInit /\ [][RewriterNext]_vars

(***************************************************************************)
(* The LRU store of lruCache.ts: one store wrapped by wrapRefAsLru, and    *)
(* the reads, writes, tests, deletes and prunes made through its proxy.    *)
(* The two options are numbers of the caller; they are kept in halves so   *)
(* that Math.floor has something to round.                                 *)
(***************************************************************************)
\* Math.floor of a number kept in halves.
Floor(halves) == halves \div 2

\* const maxSize of wrapRefAsLru.
maxSize == IF Floor(optMaxSize) > 0 THEN Floor(optMaxSize) ELSE 0

\* const ttlMs of wrapRefAsLru.
ttlMs == IF optTtlMs > 0 THEN Floor(optTtlMs) ELSE 0

\* The keys of the Map lruOrder.
LruKeys(order) == {order[i][1] : i \in DOMAIN order}

\* lruOrder.get(key), undefined read as 0 as || does.
LruGet(order, key) ==
  IF key \in LruKeys(order)
    THEN (CHOOSE e \in SeqRange(order) : e[1] = key)[2]
    ELSE 0

\* lruOrder.delete(key).
LruDelete(order, key) == SelectSeq(order, LAMBDA e : e[1] # key)

touch(order, key, at) == Append(LruDelete(order, key), <<key, at>>)

isExpired(last, at) == ttlMs > 0 /\ (at - last) > ttlMs

\* const last = lruOrder.get(p) || now
LastOr(order, key, at) == IF LruGet(order, key) = 0 THEN at ELSE LruGet(order, key)

\* The store as the closures of wrapRefAsLru see it.
Cache(t, order, n) == [t |-> t, order |-> order, size |-> n]

RECURSIVE evictToMax(_)
evictToMax(c) ==
  IF maxSize <= 0
    THEN c
    ELSE IF c.size > maxSize /\ c.order # <<>>
      THEN LET k == c.order[1][1]
           IN IF MapHas(c.t, k)
                THEN evictToMax(Cache(MapDelete(c.t, k), Tail(c.order), c.size - 1))
                ELSE evictToMax(Cache(c.t, Tail(c.order), c.size))
      ELSE c

pruneExpired(c, at) ==
  IF ttlMs <= 0
    THEN c
    ELSE LET gone == {e[1] : e \in {x \in SeqRange(c.order) : isExpired(x[2], at)}}
         IN Cache([k \in DOMAIN c.t \ gone |-> c.t[k]],
                  SelectSeq(c.order, LAMBDA e : e[1] \notin gone),
                  c.size - Cardinality(gone \cap DOMAIN c.t))

\* The key that names the prototype of an object.
ProtoKey == "__proto__"

\* The string keys the callers use, and the values they store.
CacheKeys == {"a", "b", "c", ProtoKey}
CacheValues == {"x", "y"}

\* opts.maxSize and opts.ttlMs of the caller, in halves: 0, 1, 1.5, 2 and
\* 0, 0.5, 1, 1.5.
MaxSizeOptions == {0, 2, 3, 4}
TtlOptions == {0, 1, 2, 3}

\* storeRef.value at the time of the wrap, as the sequence Object.keys gives.
InitialKeys == {<<>>, <<"a">>, <<"b", "a">>, <<"a", "b", "c">>}

\* Date.now() at the time of the wrap.
CacheEpoch == 1

\* t[p] = value on the plain object behind the proxy: the write of
\* "__proto__" is taken by the accessor of Object.prototype and creates no
\* own property.
ObjectSet(t, p, value) == IF p = ProtoKey THEN t ELSE MapSet(t, p, value)

\* The writes of "__proto__" that are followed: each adds one to size.
ProtoWritten == size - Cardinality(DOMAIN proxyTarget)

\* The return values true and false.
True == "true"
False == "false"

\* What the last operation was and what it returned.
Returns(op, key, value) == [op |-> op, key |-> key, value |-> value]

\* wrapRefAsLru(storeRef, opts) has returned.
LruInit ==
  /\ ProtocolInit
  /\ ClassifierIdle
  /\ RegistrationOff
  /\ RewriterIdle
  /\ optMaxSize \in MaxSizeOptions
  /\ optTtlMs \in TtlOptions
  /\ cacheNow = CacheEpoch
  /\ \E keys \in InitialKeys :
       /\ proxyTarget = [k \in SeqRange(keys) |-> "x"]
       /\ lruOrder = [i \in DOMAIN keys |-> <<keys[i], CacheEpoch>>]
       /\ size = Len(keys)
  /\ cacheResult = Returns("wrap", "", Undefined)
  /\ SdkIdle

\* The closures leave the store as c.
Becomes(c) ==
  /\ proxyTarget' = c.t
  /\ lruOrder' = c.order
  /\ size' = c.size

\* The get trap: store[p].
CacheGet(p) ==
  /\ IF ~MapHas(proxyTarget, p)
       THEN /\ cacheResult' = Returns("get", p, Undefined)
            /\ UNCHANGED <<proxyTarget, lruOrder, size>>
       ELSE IF isExpired(LastOr(lruOrder, p, cacheNow), cacheNow)
         THEN /\ Becomes(Cache(MapDelete(proxyTarget, p), LruDelete(lruOrder, p), size - 1))
              /\ cacheResult' = Returns("get", p, Undefined)
         ELSE /\ Becomes(Cache(proxyTarget, touch(lruOrder, p, cacheNow), size))
              /\ cacheResult' = Returns("get", p, proxyTarget[p])
  /\ UNCHANGED <<optMaxSize, optTtlMs, cacheNow>>
  /\ UNCHANGED notCache

\* The mutant of the set trap: it does not enforce the maximum size.
CacheSet_NoEvict(p, value) ==
  /\ p = ProtoKey => ProtoWritten < MaxProtoWrites
  /\ LET existed == MapHas(proxyTarget, p)
         written == Cache(ObjectSet(proxyTarget, p, value),
                          touch(lruOrder, p, cacheNow),
                          IF existed THEN size ELSE size + 1)
     IN Becomes(pruneExpired(written, cacheNow))
  /\ cacheResult' = Returns("set", p, True)
  /\ UNCHANGED <<optMaxSize, optTtlMs, cacheNow>>
  /\ UNCHANGED notCache

\* The set trap: store[p] = value.
CacheSet(p, value) ==
  /\ p = ProtoKey => ProtoWritten < MaxProtoWrites
  /\ LET existed == MapHas(proxyTarget, p)
         written == Cache(ObjectSet(proxyTarget, p, value),
                          touch(lruOrder, p, cacheNow),
                          IF existed THEN size ELSE size + 1)
     IN Becomes(evictToMax(pruneExpired(written, cacheNow)))
  /\ cacheResult' = Returns("set", p, True)
  /\ UNCHANGED <<optMaxSize, optTtlMs, cacheNow>>
  /\ UNCHANGED notCache

\* The deleteProperty trap: delete store[p].
CacheDelete(p) ==
  /\ IF MapHas(proxyTarget, p)
       THEN Becomes(Cache(MapDelete(proxyTarget, p), LruDelete(lruOrder, p), size - 1))
       ELSE UNCHANGED <<proxyTarget, lruOrder, size>>
  /\ cacheResult' = Returns("delete", p, True)
  /\ UNCHANGED <<optMaxSize, optTtlMs, cacheNow>>
  /\ UNCHANGED notCache

\* The has trap: p in store.
CacheHas(p) ==
  /\ IF ~MapHas(proxyTarget, p)
       THEN /\ cacheResult' = Returns("has", p, False)
            /\ UNCHANGED <<proxyTarget, lruOrder, size>>
       ELSE IF isExpired(LastOr(lruOrder, p, cacheNow), cacheNow)
         THEN /\ Becomes(Cache(MapDelete(proxyTarget, p), LruDelete(lruOrder, p), size - 1))
              /\ cacheResult' = Returns("has", p, False)
         ELSE /\ Becomes(Cache(proxyTarget, touch(lruOrder, p, cacheNow), size))
              /\ cacheResult' = Returns("has", p, True)
  /\ UNCHANGED <<optMaxSize, optTtlMs, cacheNow>>
  /\ UNCHANGED notCache

\* prune(nowInput): nowInput ?? Date.now(), then both passes.
prune(nowInput) ==
  /\ LET at == IF nowInput = <<>> THEN cacheNow ELSE nowInput[1]
     IN Becomes(evictToMax(pruneExpired(Cache(proxyTarget, lruOrder, size), at)))
  /\ cacheResult' = Returns("prune", "", Undefined)
  /\ UNCHANGED <<optMaxSize, optTtlMs, cacheNow>>
  /\ UNCHANGED notCache

\* The arguments a caller hands to prune: none, or a time.
PruneInputs == {<<>>} \cup {<<at>> : at \in CacheEpoch..MaxCacheNow}

\* A millisecond passes.
CacheTick ==
  /\ cacheNow < MaxCacheNow
  /\ cacheNow' = cacheNow + 1
  /\ UNCHANGED <<optMaxSize, optTtlMs, proxyTarget, lruOrder, size, cacheResult>>
  /\ UNCHANGED notCache

LruNext ==
  \/ \E p \in CacheKeys : CacheGet(p)
  \/ \E p \in CacheKeys, value \in CacheValues : CacheSet(p, value)
  \/ \E p \in CacheKeys : CacheDelete(p)
  \/ \E p \in CacheKeys : CacheHas(p)
  \/ \E nowInput \in PruneInputs : prune(nowInput)
  \/ CacheTick

LruSpec == LruInit /\ [][LruNext]_vars

(***************************************************************************)
(* The class SdkService, in its two versions (sdkService.ts and the later  *)
(* part_004), and the host SDK it wraps.  A call of an async method is a   *)
(* slot that moves from one await to the next; the host settles each       *)
(* promise it handed out.                                                  *)
(***************************************************************************)
\* The hosts the application may run in: no window.BastyonSdk at all, the
\* SDK without init, serviceWorker and the newer functions, or all of it.
Hosts == {"absent", "plain", "extended"}

\* typeof of the function on the host SDK is 'function'.
Offers(h, fn) ==
  \/ h = "plain" /\ fn \in PlainFunctions
  \/ h = "extended"

\* The public methods other than init, of the first and of the later version.
EarlyMethods ==
  {"openExternalLink", "rpc", "on", "off", "getAppInfo", "checkAndRequestPermissions"}
LaterMethods ==
  EarlyMethods \cup
    {"sign", "supportsAction", "action", "getAccountAddress", "openChannel", "openPost"}
PublicMethods == IF laterVersion THEN LaterMethods ELSE EarlyMethods

\* The function of the host SDK a method ends in.
HostFunctionOf(method) ==
  CASE method = "openExternalLink" -> "openExternalLink"
    [] method = "rpc" -> "rpc"
    [] method = "on" -> "on"
    [] method = "off" -> "off"
    [] method = "getAppInfo" -> "get.appinfo"
    [] method = "sign" -> "sign"
    [] method = "action" -> "action"
    [] method = "getAccountAddress" -> "get.account"
    [] method = "openChannel" -> "helpers.channel"
    [] method = "openPost" -> "open.post"
    [] OTHER -> ""

\* The arguments of checkAndRequestPermissions and of sign.
PermissionLists == {<<"sign">>, <<"account", "sign">>}
UnsignedHexes == {"", "0100"}

\* The options objects the callers of rpc hand in.
RpcOptions == {NoOptions, [cachetime |-> <<60>>]}

\* The cachetime of a retry whose options have none.
RETRY_CACHETIME == 15

\* const opts = { ...(options || {}) }, with the cachetime of a retry.
OptsOf(options, attempt) ==
  IF attempt > 0 /\ options.cachetime = <<>>
    THEN [options EXCEPT !.cachetime = <<RETRY_CACHETIME>>]
    ELSE options

\* String.prototype.toLowerCase, for the letters A to Z.
UpperCase == "ABCDEFGHIJKLMNOPQRSTUVWXYZ"
LowerCase == "abcdefghijklmnopqrstuvwxyz"

LowerChar(c) ==
  IF \E k \in 1..Len(UpperCase) : SubSeq(UpperCase, k, k) = c
    THEN LET k == CHOOSE k \in 1..Len(UpperCase) : SubSeq(UpperCase, k, k) = c
         IN SubSeq(LowerCase, k, k)
    ELSE c

RECURSIVE toLowerCase(_)
toLowerCase(str) ==
  IF str = ""
    THEN ""
    ELSE LowerChar(SubSeq(str, 1, 1)) \o toLowerCase(SubSeq(str, 2, Len(str)))

\* The messages of the errors the host rejects with.
HostFailures == {"Failed to fetch", "Unexpected end of JSON input", "Method not found"}

\* How the host settles a promise: with a value, with an empty value, or
\* with an error.
HostResults == {"value", "empty"} \cup HostFailures

\* The texts isTransientError looks for.
TransientTexts ==
  <<"unexpected end of json", "unexpected eof", "failed to fetch", "networkerror",
    "network error", "load failed", "aborted", "timeout">>

\* isTransientError taking every error for transient.
isTransientError_Always(err) == err = err

isTransientError(err) ==
  LET msg == toLowerCase(err)
  IN \E k \in 1..Len(TransientTexts) : Includes(msg, TransientTexts[k])

\* The attempts of one rpc call.
RPC_ATTEMPTS == 3

\* One more call of the host function fn.
Called(log, fn) == [log EXCEPT ![fn] = @ + 1]

\* One more call of fn for each permission of the list.
RECURSIVE CalledForEach(_, _, _)
CalledForEach(log, fn, perms) ==
  IF perms = <<>>
    THEN log
    ELSE CalledForEach(Called(log, fn \o ":" \o Head(perms)), fn, Tail(perms))

\* The mutant of ensureInitialized: it never throws.
ensureInitialized_Never == TRUE

\* ensureInitialized returns (TRUE) or throws the "not initialized" error.
ensureInitialized == sdk # NoSdk

\* A call in a given state, and the host calls made so far.
Step(call, log) == [call |-> call, log |-> log]

Ended(call, how) == [call EXCEPT !.stage = "done", !.outcome = how]

Awaits(call, at) == [call EXCEPT !.stage = at, !.outcome = "pending"]

\* init from the emit of 'loaded' on.
AfterHostInit(call, log) ==
  LET emitted == Called(log, "emit")
  IN IF Offers(hostKind, "serviceWorker.register")
       THEN Step(Awaits(call, "awaitRegister"), Called(emitted, "serviceWorker.register"))
       ELSE IF laterVersion
         THEN Step(Ended(call, "resolved"), emitted)
         ELSE Step(Ended(call, "rejected"), emitted)

\* init from the assignment of this.sdk on.
AfterConstruction(call, log) ==
  IF Offers(hostKind, "init")
    THEN Step(Awaits(call, "awaitInit"), Called(log, "init"))
    ELSE IF laterVersion
      THEN AfterHostInit(call, log)
      ELSE Step(Ended(call, "rejected"), log)

\* SdkService.init() is called, and runs to its first await or to its end.
SdkInit(c) ==
  /\ inits[c].stage = "idle"
  /\ c > 1 => inits[c - 1].stage # "idle"
  /\ IF sdk # NoSdk
       THEN /\ inits' = [inits EXCEPT ![c] = Ended(@, "resolved")]
            /\ UNCHANGED <<sdk, hostCalls>>
       ELSE IF hostKind = "absent"
         THEN /\ inits' = [inits EXCEPT ![c] = Ended(@, "rejected")]
              /\ UNCHANGED <<sdk, hostCalls>>
         ELSE LET next == AfterConstruction(inits[c], hostCalls)
              IN /\ sdk' = TheSdk
                 /\ inits' = [inits EXCEPT ![c] = next.call]
                 /\ hostCalls' = next.log
  /\ UNCHANGED <<laterVersion, hostKind, permissionCache, invocations>>
  /\ UNCHANGED notSdk

\* The promise of sdk.init() settles.
SdkInitSettles(c, ok) ==
  /\ inits[c].stage = "awaitInit"
  /\ LET next == IF ok THEN AfterHostInit(inits[c], hostCalls)
                      ELSE Step(Ended(inits[c], "rejected"), hostCalls)
     IN /\ inits' = [inits EXCEPT ![c] = next.call]
        /\ hostCalls' = next.log
  /\ UNCHANGED <<laterVersion, hostKind, sdk, permissionCache, invocations>>
  /\ UNCHANGED notSdk

\* The promise of sdk.serviceWorker.register() settles.
SdkRegisterSettles(c, ok) ==
  /\ inits[c].stage = "awaitRegister"
  /\ inits' = [inits EXCEPT ![c] = Ended(@, IF ok THEN "resolved" ELSE "rejected")]
  /\ UNCHANGED <<laterVersion, hostKind, sdk, permissionCache, invocations, hostCalls>>
  /\ UNCHANGED notSdk

\* The first index from `from` on of a permission to check: the later
\* version skips the permissions the cache holds.
RECURSIVE NextToCheck(_, _, _)
NextToCheck(perms, from, cache) ==
  IF from > Len(perms)
    THEN from
    ELSE IF laterVersion /\ perms[from] \in cache
      THEN NextToCheck(perms, from + 1, cache)
      ELSE from

\* sign from the end of its call of checkAndRequestPermissions on.
SignAfterPermissions(call, log) ==
  IF Offers(hostKind, "sign")
    THEN Step(Awaits(call, "awaitHost"), Called(log, "sign"))
    ELSE Step(Ended(call, "threw"), log)

\* checkAndRequestPermissions returns, or throws; sign goes on either way.
PermissionsEnd(call, log, how) ==
  IF call.method = "sign"
    THEN SignAfterPermissions(call, log)
    ELSE Step(Ended(call, how), log)

\* The loop of checkAndRequestPermissions from index `from` on, up to the
\* next await.
ChecksFrom(call, from, cache, log) ==
  LET j == NextToCheck(call.perms, from, cache)
  IN IF j <= Len(call.perms)
       THEN Step([Awaits(call, "awaitCheck") EXCEPT !.idx = j],
                 Called(log, "permissions.check:" \o call.perms[j]))
       ELSE IF laterVersion /\ call.missing # <<>>
         THEN Step(Awaits(call, "awaitRequest"),
                   CalledForEach(log, "permissions.request", call.missing))
         ELSE PermissionsEnd(call, log, "returned")

\* A public method other than init, from after ensureInitialized to its
\* first await or to its end.
Body(call, perms, unsignedHex, options, log) ==
  LET m == call.method
  IN CASE m \in {"openExternalLink", "on", "off"} ->
            Step(Ended(call, "returned"), Called(log, HostFunctionOf(m)))
       [] m = "supportsAction" ->
            Step(Ended(call, "returned"), log)
       [] m = "getAppInfo" ->
            Step(Awaits(call, "awaitHost"), Called(log, HostFunctionOf(m)))
       [] m = "rpc" ->
            Step([Awaits(call, "awaitHost") EXCEPT
                    !.options = IF laterVersion THEN options ELSE NoOptions,
                    !.opts = IF laterVersion THEN OptsOf(options, 0) ELSE NoOptions],
                 Called(log, "rpc"))
       [] m \in {"action", "getAccountAddress", "openChannel", "openPost"} ->
            IF Offers(hostKind, HostFunctionOf(m))
              THEN Step(Awaits(call, "awaitHost"), Called(log, HostFunctionOf(m)))
              ELSE Step(Ended(call, "threw"), log)
       [] m = "sign" ->
            IF unsignedHex = ""
              THEN Step(Ended(call, "threw"), log)
              ELSE ChecksFrom([call EXCEPT !.perms = <<"sign">>], 1, permissionCache, log)
       [] m = "checkAndRequestPermissions" ->
            ChecksFrom([call EXCEPT !.perms = perms], 1, permissionCache, log)

\* SdkService.<method>(...) is called.
Invoke(i, method, perms, unsignedHex, options) ==
  /\ invocations[i].stage = "idle"
  /\ i > 1 => invocations[i - 1].stage # "idle"
  /\ method \in PublicMethods
  /\ LET call == [invocations[i] EXCEPT !.method = method]
         next == IF ensureInitialized
                   THEN Body(call, perms, unsignedHex, options, hostCalls)
                   ELSE Step(Ended(call, "notInitialized"), hostCalls)
     IN /\ invocations' = [invocations EXCEPT ![i] = next.call]
        /\ hostCalls' = next.log
  /\ UNCHANGED <<laterVersion, hostKind, sdk, permissionCache, inits>>
  /\ UNCHANGED notSdk

\* The promise of the host function of a method settles.
HostSettles(i, result) ==
  /\ invocations[i].stage = "awaitHost"
  /\ LET call == invocations[i]
         failed == result \in HostFailures
     IN invocations' = [invocations EXCEPT ![i] =
          IF failed /\ call.method = "rpc" /\ laterVersion /\ isTransientError(result)
               /\ call.attempt < RPC_ATTEMPTS - 1
            THEN [call EXCEPT !.stage = "sleeping", !.lastErr = result]
            ELSE IF failed
              THEN [Ended(call, "threw") EXCEPT !.lastErr = result]
              ELSE IF call.method \in {"sign", "getAccountAddress"} /\ result = "empty"
                THEN Ended(call, "threw")
                ELSE Ended(call, "returned")]
  /\ UNCHANGED <<laterVersion, hostKind, sdk, permissionCache, inits, hostCalls>>
  /\ UNCHANGED notSdk

\* The sleep between two attempts of rpc ends, and the next attempt starts.
SleepEnds(i) ==
  /\ invocations[i].stage = "sleeping"
  /\ invocations' = [invocations EXCEPT ![i] =
       [@ EXCEPT !.stage = "awaitHost", !.attempt = @ + 1,
                 !.opts = OptsOf(invocations[i].options, invocations[i].attempt + 1)]]
  /\ hostCalls' = Called(hostCalls, "rpc")
  /\ UNCHANGED <<laterVersion, hostKind, sdk, permissionCache, inits>>
  /\ UNCHANGED notSdk

\* The promise of permissions.check settles: granted, not granted, rejected.
CheckResults == {"granted", "denied", "rejected"}

CheckSettles(i, result) ==
  /\ invocations[i].stage = "awaitCheck"
  /\ LET call == invocations[i]
         p == call.perms[call.idx]
         cache == IF laterVersion /\ result = "granted"
                    THEN permissionCache \cup {p}
                    ELSE permissionCache
         next ==
           IF laterVersion
             THEN ChecksFrom(IF result = "granted"
                               THEN call
                               ELSE [call EXCEPT !.missing = Append(@, p)],
                             call.idx + 1, cache, hostCalls)
             ELSE CASE result = "granted" ->
                         ChecksFrom(call, call.idx + 1, cache, hostCalls)
                    [] result = "denied" ->
                         Step(Awaits(call, "awaitRequest"),
                              Called(hostCalls, "permissions.request:" \o p))
                    [] result = "rejected" ->
                         Step(Ended(call, "threw"), hostCalls)
     IN /\ permissionCache' = cache
        /\ invocations' = [invocations EXCEPT ![i] = next.call]
        /\ hostCalls' = next.log
  /\ UNCHANGED <<laterVersion, hostKind, sdk, inits>>
  /\ UNCHANGED notSdk

\* The promise of permissions.request settles.
RequestSettles(i, ok) ==
  /\ invocations[i].stage = "awaitRequest"
  /\ LET call == invocations[i]
         cache == IF laterVersion /\ ok
                    THEN permissionCache \cup SeqRange(call.missing)
                    ELSE permissionCache
         next ==
           IF laterVersion
             THEN PermissionsEnd(call, hostCalls, IF ok THEN "returned" ELSE "threw")
             ELSE IF ok
               THEN ChecksFrom(call, call.idx + 1, cache, hostCalls)
               ELSE Step(Ended(call, "threw"), hostCalls)
     IN /\ permissionCache' = cache
        /\ invocations' = [invocations EXCEPT ![i] = next.call]
        /\ hostCalls' = next.log
  /\ UNCHANGED <<laterVersion, hostKind, sdk, inits>>
  /\ UNCHANGED notSdk

\* One of the two versions of SdkService is loaded in one of the hosts.
SdkServiceInit ==
  /\ ProtocolInit
  /\ ClassifierIdle
  /\ RegistrationOff
  /\ RewriterIdle
  /\ CacheIdle
  /\ laterVersion \in BOOLEAN
  /\ hostKind \in Hosts
  /\ SdkLoaded

SdkNext ==
  \/ \E c \in InitCalls : SdkInit(c)
  \/ \E c \in InitCalls, ok \in BOOLEAN : SdkInitSettles(c, ok)
  \/ \E c \in InitCalls, ok \in BOOLEAN : SdkRegisterSettles(c, ok)
  \/ \E i \in Invocations, method \in LaterMethods, perms \in PermissionLists,
        unsignedHex \in UnsignedHexes, options \in RpcOptions :
          Invoke(i, method, perms, unsignedHex, options)
  \/ \E i \in Invocations, result \in HostResults : HostSettles(i, result)
  \/ \E i \in Invocations : SleepEnds(i)
  \/ \E i \in Invocations, result \in CheckResults : CheckSettles(i, result)
  \/ \E i \in Invocations, ok \in BOOLEAN : RequestSettles(i, ok)

SdkSpec == SdkServiceInit /\ [][SdkNext]_vars

\* The timer of a sleep fires, and the host settles the promise of each rpc
\* it was called with.
SdkFairness ==
  \A i \in Invocations :
    /\ WF_vars(SleepEnds(i))
    /\ WF_vars(\E result \in HostResults : HostSettles(i, result))

\* The service with rpc as the one method that is called.
RpcNext ==
  \/ \E c \in InitCalls : SdkInit(c)
  \/ \E c \in InitCalls : \E ok \in BOOLEAN : SdkInitSettles(c, ok)
  \/ \E c \in InitCalls : \E ok \in BOOLEAN : SdkRegisterSettles(c, ok)
  \/ \E i \in Invocations : \E options \in RpcOptions :
       Invoke(i, "rpc", <<>>, "", options)
  \/ \E i \in Invocations : \E result \in HostResults : HostSettles(i, result)
  \/ \E i \in Invocations : SleepEnds(i)

RpcSpec == SdkServiceInit /\ [][RpcNext]_vars /\ SdkFairness

(***************************************************************************)
(* Properties of the proxy protocol.                                       *)
(***************************************************************************)
NoWindowsError == Rejected("No windows available")
TimeoutError == Rejected("Timeout")

\* The fetch has registered its PendingRequest.
Registered(f) == stage[f] \in {"matching", "posted", "noWindow"}

\* The entry that the fetch registered is still in the table.
EntryLive(f) ==
  /\ Registered(f)
  /\ MapHas(pendingRequests, requestId[f])
  /\ pendingRequests[requestId[f]] = f

\* The ids of the FETCH_RESPONSE messages the worker has handled.
HandledIds == {h[1] : h \in handled}

\* The Response a caller expects for the payload of a success message.
ExpectedResponse(data) ==
  [status |-> data.status, statusText |-> data.statusText,
   headers |-> data.headers, body |-> data.body]

\* The step is the handling of the FETCH_RESPONSE m by the worker.
HandlesResponse(m) == m.type = "FETCH_RESPONSE" /\ OnMessage(m)

\* The step is one of the three events that can end the fetch f.
EndingEvent(f) ==
  \/ OnTimeout(f)
  \/ MatchAllThen(f) /\ clientList = {}
  \/ \E m \in toWorker : m.requestId = requestId[f] /\ HandlesResponse(m)

\* C1: a proxied fetch is settled exactly once; after the first of its timeout,
\* a matching FETCH_RESPONSE and the no-window rejection, every later one of
\* these events for the same requestId leaves the outcome and the pending
\* table as they are.
C1_SettledOnceLaterEventsNoOp ==
  [][\A f \in Fetches :
       (Registered(f) /\ outcome[f] # Pending) =>
         /\ outcome'[f] = outcome[f]
         /\ EndingEvent(f) => pendingRequests' = pendingRequests]_vars

\* C2: once a fetch is rejected because no window client exists, the pending
\* table holds no entry under its requestId.
C2_NoEntryAfterNoWindowRejection ==
  \A f \in Fetches :
    outcome[f] = NoWindowsError => ~MapHas(pendingRequests, requestId[f])

\* C3: the handling of a FETCH_RESPONSE carrying requestId r changes the outcome
\* of no fetch other than the one registered under r.
C3_ResponseSettlesOnlyItsRequest ==
  [][\A m \in toWorker : HandlesResponse(m) =>
       \A f \in Fetches :
         outcome'[f] # outcome[f] =>
           /\ requestId[f] = m.requestId
           /\ EntryLive(f)]_vars

\* Two fetches pending under different ids, one of them resolved by a response,
\* the other still pending with its entry in the table.
C3_Witness ==
  \E f, g \in Fetches :
    /\ outcome[f].kind = "resolved"
    /\ outcome[g] = Pending
    /\ EntryLive(g)
    /\ requestId[g] # requestId[f]
    /\ stage[f] = "posted"
    /\ timer[f] = "armed"

\* C4: every fetch that registered a PendingRequest is eventually settled and
\* its entry eventually leaves the table, whether or not a response comes.
C4_EveryRegisteredFetchEnds ==
  \A f \in Fetches :
    Registered(f) ~> (outcome[f] # Pending /\ ~EntryLive(f))

\* A posted fetch that no response ever came for, ended by its timer.
C4_Witness ==
  \E f \in Fetches :
    /\ stage[f] = "posted"
    /\ timer[f] = "fired"
    /\ outcome[f] = TimeoutError
    /\ requestId[f] \notin HandledIds
    /\ ~MapHas(pendingRequests, requestId[f])

\* C5: when the relayed request of a fetch has reached the parent and the
\* parent's one success response with the same requestId is handled before the
\* timer of the fetch fires, the fetch is resolved with that response.
C5_AnsweredFetchResolves ==
  [][\A m \in toWorker :
       ( /\ HandlesResponse(m)
         /\ m.success
         /\ m.requestId \notin HandledIds
         /\ \A o \in (toWorker \cup toWindow) \ {m} : o.requestId # m.requestId ) =>
       \A f \in Fetches :
         ( /\ stage[f] = "posted"
           /\ requestId[f] = m.requestId
           /\ message[f] \in hostInbox
           /\ timer[f] = "armed" ) =>
         outcome'[f] = Resolved(ExpectedResponse(m.data))]_vars

\* C6: a success FETCH_RESPONSE whose requestId has a live PendingRequest
\* removes the entry and resolves the fetch with a Response of exactly the
\* status, statusText, headers and body of its data.
C6_SuccessResolvesWithData ==
  [][\A m \in toWorker :
       (HandlesResponse(m) /\ m.success /\ MapHas(pendingRequests, m.requestId)) =>
         /\ m.requestId \notin DOMAIN pendingRequests'
         /\ outcome'[pendingRequests[m.requestId]]
              = Resolved(ExpectedResponse(m.data))]_vars

\* C7: a failure FETCH_RESPONSE whose requestId has a live PendingRequest
\* removes the entry and rejects the fetch with the error string of the host.
C7_FailureRejectsWithHostError ==
  [][\A m \in toWorker :
       (HandlesResponse(m) /\ ~m.success /\ MapHas(pendingRequests, m.requestId)) =>
         /\ m.requestId \notin DOMAIN pendingRequests'
         /\ outcome'[pendingRequests[m.requestId]] = Rejected(m.error)]_vars

\* C8 as claimed: a fetch that has received no matching FETCH_RESPONSE when its
\* timer fires is rejected with the timeout error and its entry is removed; a
\* fetch resolved before the timer fired stays resolved.
C8_TimeoutRejectsUnanswered ==
  [][\A f \in Fetches : OnTimeout(f) =>
       /\ requestId[f] \notin HandledIds =>
            /\ outcome'[f] = TimeoutError
            /\ requestId[f] \notin DOMAIN pendingRequests'
       /\ outcome[f].kind = "resolved" => outcome'[f] = outcome[f]]_vars

\* C8 amended: a fetch that has received no matching FETCH_RESPONSE and was not
\* rejected for want of a window client when its timer fires is rejected with
\* the timeout error; in every case the timer removes the entry stored under
\* the requestId, and a fetch resolved before stays resolved.
C8_TimeoutRejectsPending ==
  [][\A f \in Fetches : OnTimeout(f) =>
       /\ (requestId[f] \notin HandledIds /\ stage[f] # "noWindow") =>
            outcome'[f] = TimeoutError
       /\ requestId[f] \notin DOMAIN pendingRequests'
       /\ outcome[f].kind = "resolved" => outcome'[f] = outcome[f]]_vars

\* A posted fetch that received nothing, timed out: rejected, entry removed.
C8_Witness ==
  \E f \in Fetches :
    /\ stage[f] = "posted"
    /\ message[f] \in hostInbox
    /\ requestId[f] \notin HandledIds
    /\ timer[f] = "fired"
    /\ outcome[f] = TimeoutError
    /\ ~MapHas(pendingRequests, requestId[f])
    /\ \E g \in Fetches : outcome[g].kind = "resolved" /\ timer[g] = "fired"

\* C9 as claimed: a dispatch that finds no window client rejects the fetch at
\* that step with "No windows available" and posts no FETCH_REQUEST.
C9_NoWindowRejectsAtDispatch ==
  [][\A f \in Fetches : (MatchAllThen(f) /\ clientList = {}) =>
       /\ outcome'[f] = NoWindowsError
       /\ swToClient' = swToClient]_vars

\* C9 amended: a dispatch that finds no window client posts no FETCH_REQUEST
\* and rejects the fetch at that step with "No windows available" when the
\* fetch is still unsettled; a fetch settled before keeps its outcome.
C9_NoWindowRejectsPendingAtDispatch ==
  [][\A f \in Fetches : (MatchAllThen(f) /\ clientList = {}) =>
       /\ outcome[f] = Pending => outcome'[f] = NoWindowsError
       /\ outcome[f] # Pending => outcome'[f] = outcome[f]
       /\ swToClient' = swToClient]_vars

\* A fetch rejected for want of a window while its timer is not yet due.
C9_Witness ==
  \E f \in Fetches :
    /\ stage[f] = "noWindow"
    /\ outcome[f] = NoWindowsError
    /\ timer[f] = "armed"
    /\ now < deadline[f]
    /\ message[f] \notin (swToClient \cup hostInbox)

\* C10: a FETCH_RESPONSE whose requestId has no entry in the pending table
\* changes neither the table nor the outcome of any fetch.
C10_UnknownResponseIgnored ==
  [][\A m \in toWorker :
       (HandlesResponse(m) /\ ~MapHas(pendingRequests, m.requestId)) =>
         /\ pendingRequests' = pendingRequests
         /\ outcome' = outcome]_vars

\* A response handled after the timer had removed the entry of its fetch, while
\* another fetch is pending in the table.
C10_Witness ==
  \E f, g \in Fetches :
    /\ timer[f] = "fired"
    /\ outcome[f] = TimeoutError
    /\ <<requestId[f], FALSE>> \in handled
    /\ <<requestId[f], TRUE>> \notin handled
    /\ outcome[g] = Pending
    /\ EntryLive(g)

\* The fetch has been given a requestId.
Issued(f) == requestId[f] # NoId

\* C11: the requestId made for a proxied fetch differs from the requestId of
\* every other proxied fetch, whether that one is still in the pending table
\* (two fetches of the same millisecond included) or has been resolved,
\* rejected or timed out.
C11_RequestIdsNeverCollide ==
  \A f, g \in Fetches :
    (f # g /\ Issued(f) /\ Issued(g)) => requestId[f] # requestId[g]

\* C12: for two fetches in flight at once, the timeout, the response or the
\* no-window rejection of one leaves the entry of the other in the table and
\* the outcome of the other as it is.
C12_EventsOfOneLeaveTheOtherAlone ==
  [][\A a, b \in Fetches :
       ( /\ a # b
         /\ Registered(a)
         /\ EntryLive(b)
         /\ outcome[b] = Pending
         /\ EndingEvent(a) ) =>
       /\ EntryLive(b)'
       /\ outcome'[b] = outcome[b]]_vars

\* C13: a fetch event that the classifier answers with bypass engages nothing
\* of the protocol: no requestId is made, no entry enters the pending table, no
\* timer is started and no FETCH_REQUEST is posted, then or later.
C13_BypassEngagesNothing ==
  /\ [][\A url \in FetchUrls, method \in Methods, rnd \in RandomSuffixes :
          (FetchEvent(url, method, rnd) /\ shouldSkipRequest(url, WorkerParent)) =>
            /\ requestId' = requestId
            /\ pendingRequests' = pendingRequests
            /\ timer' = timer
            /\ message' = message
            /\ swToClient' = swToClient]_vars
  /\ [](\A f \in Fetches :
          stage[f] = "bypassed" =>
            /\ ~Issued(f)
            /\ timer[f] = "unset"
            /\ message[f] = NoMessage
            /\ \A k \in DOMAIN pendingRequests : pendingRequests[k] # f)

\* A bypassed fetch that came while an earlier fetch was pending in the table.
C13_Witness ==
  \E f, g \in Fetches :
    /\ g < f
    /\ stage[f] = "bypassed"
    /\ EntryLive(g)
    /\ outcome[g] = Pending
    /\ outcome[f] = Pending

\* C14: the worker never retries.  A FETCH_REQUEST enters the channel to the
\* window client only at the dispatch of its fetch, a fetch is dispatched once,
\* and each failure path (no window client, failure message of the host,
\* timeout) leaves the promise of the fetch rejected.
C14_NoRetryFailuresReject ==
  [][/\ \A m \in swToClient' \ swToClient :
          \E f \in Fetches :
            MatchAllThen(f) /\ clientList # {} /\ message[f] = m
     /\ \A f \in Fetches :
          /\ stage[f] \in {"posted", "noWindow", "bypassed"} => stage'[f] = stage[f]
          /\ (MatchAllThen(f) /\ clientList = {}) => outcome'[f].kind = "rejected"
          /\ (OnTimeout(f) /\ outcome[f].kind # "resolved") =>
               outcome'[f].kind = "rejected"
     /\ \A m \in toWorker :
          (HandlesResponse(m) /\ ~m.success /\ MapHas(pendingRequests, m.requestId)) =>
            outcome'[pendingRequests[m.requestId]].kind = "rejected"]_vars

\* C15: a proxied fetch that the privacy transport cannot serve (the host
\* reports a failure, never answers, or no window is available) does not fail
\* for the caller: its promise is never rejected, the request being redone
\* directly on the network.
C15_ProxiedFetchNeverFailsForCaller ==
  \A f \in Fetches : Registered(f) => outcome[f].kind # "rejected"

(***************************************************************************)
(* Properties of the classifier.                                           *)
(***************************************************************************)
Classified == decision # "none"

HttpScheme(url) == url.protocol \in {"http:", "https:"}

Labels(hostname) == SeqRange(SplitDot(hostname))

\* The labels longer than 2 characters that the two hostnames have in common.
CommonLabels(a, b) == {l \in Labels(a) \cap Labels(b) : Len(l) > 2}

\* One hostname is a strict subdomain of the other.
SubdomainEitherWay(a, b) == EndsWith(a, "." \o b) \/ EndsWith(b, "." \o a)

\* The hostname is one of the domains or a subdomain of one of them.
InDomains(hostname, domains) ==
  \E d \in domains : hostname = d \/ EndsWith(hostname, "." \o d)

PlatformDomains == {"bastyon.com", "pocketnet.app"}

LocalHosts == {"localhost", "127.0.0.1", "0.0.0.0"}

\* The target is related to the parent as the specification has it.
RelatedToParent(url, parentUrl) ==
  \/ Origin(url) = Origin(parentUrl)
  \/ url.hostname = parentUrl.hostname
  \/ SubdomainEitherWay(url.hostname, parentUrl.hostname)
  \/ Cardinality(CommonLabels(url.hostname, parentUrl.hostname)) >= 2

\* An http(s) request to an external host.
ExternalRequest(url, parent) ==
  /\ HttpScheme(url)
  /\ Origin(url) # SelfOrigin
  /\ parent.available => ~RelatedToParent(url, parent.url)
  /\ ~InDomains(url.hostname, PlatformDomains)
  /\ ~InDomains(url.hostname, LocalHosts)
  /\ ~StartsWith(url.hostname, "127.")

\* The hostname contains one of the strings.
ContainsOneOf(hostname, strings) == \E d \in strings : Includes(hostname, d)

WorkerPath(url) ==
  Includes(url.pathname, "service-worker") \/ Includes(url.pathname, "sw.js")

\* The number of labels of the parent hostname, each counted as often as it
\* occurs there, that are longer than 2 characters and occur in the target's.
ParentLabelsFound(url, parentUrl) ==
  LET pp == SplitDot(parentUrl.hostname)
  IN Cardinality({i \in 1..Len(pp) :
                    Len(pp[i]) > 2 /\ pp[i] \in Labels(url.hostname)})

\* One of the parent rules of the classifier applies.
ParentRuleApplies(url, parentUrl) ==
  \/ Origin(url) = Origin(parentUrl)
  \/ url.hostname = parentUrl.hostname
  \/ StartsWith(Href(url), Origin(parentUrl))
  \/ SubdomainEitherWay(url.hostname, parentUrl.hostname)
  \/ ParentLabelsFound(url, parentUrl) >= 2

C17_ParentRelatedBypassed ==
  ( /\ Classified
    /\ parentCtx.available
    /\ HttpScheme(target)
    /\ \/ target.hostname = parentCtx.url.hostname
       \/ SubdomainEitherWay(target.hostname, parentCtx.url.hostname)
       \/ Cardinality(CommonLabels(target.hostname, parentCtx.url.hostname)) >= 2 ) =>
  decision = "bypass"

\* A subdomain of a parent whose labels are too short for the shared-label
\* rule, bypassed.
C17_Witness ==
  /\ decision = "bypass"
  /\ target = UrlShortChild
  /\ parentCtx = ParentOf(ParentShort)

\* The case of C18: the parent could not be read and neither the same-origin
\* rule nor the scheme rule applied.
FallbackCase ==
  /\ Classified
  /\ ~parentCtx.available
  /\ Origin(target) # SelfOrigin
  /\ HttpScheme(target)

\* C18 as claimed: in that case the request is bypassed if and only if the
\* hostname contains bastyon.com, pocketnet.app or localhost.
C18_FallbackIffAllowListed ==
  FallbackCase =>
    (decision = "bypass" <=>
       ContainsOneOf(target.hostname, {"bastyon.com", "pocketnet.app", "localhost"}))

\* C18 amended: in that case the request is bypassed if and only if the
\* hostname contains bastyon.com, pocketnet.app, localhost, 127.0.0.1 or
\* 0.0.0.0, or the path contains "service-worker" or "sw.js".
C18_FallbackIffListedOrWorkerPath ==
  FallbackCase =>
    (decision = "bypass" <=>
       \/ ContainsOneOf(target.hostname, PlatformDomains \cup LocalHosts)
       \/ WorkerPath(target))

\* A subdomain of a platform domain bypassed while the parent is unreadable.
C18_Witness ==
  /\ decision = "bypass"
  /\ target = UrlPeertube
  /\ parentCtx = NoParent

\* C19: every target of the worker's own origin is bypassed, whatever its path
\* and whatever the read of the parent gives.
C19_OwnOriginBypassed ==
  (Classified /\ Origin(target) = SelfOrigin) => decision = "bypass"

\* An asset of the own origin bypassed under a readable parent.
C19_Witness ==
  /\ decision = "bypass"
  /\ target = UrlOwn
  /\ parentCtx = ParentOf(ParentShop)

\* C20: every target whose scheme is not http or https (blob, data, file, the
\* extension schemes, any other) is bypassed, whatever its host and whatever
\* the read of the parent gives.
C20_OtherSchemesBypassed ==
  (Classified /\ target.protocol \notin {"http:", "https:"}) => decision = "bypass"

\* A target of a scheme that none of the later tests names, bypassed.
C20_Witness ==
  /\ decision = "bypass"
  /\ target = UrlFtp
  /\ parentCtx = ParentOf(ParentApi)

\* C21: every target whose path contains "service-worker" or "sw.js" is
\* bypassed, whatever its host and whatever the read of the parent gives.
C21_WorkerPathBypassed ==
  (Classified /\ WorkerPath(target)) => decision = "bypass"

\* A worker script on an external host, bypassed while the parent is unreadable.
C21_Witness ==
  /\ decision = "bypass"
  /\ target = UrlApiWorker
  /\ parentCtx = NoParent

\* C22: every request to bastyon.com, pocketnet.app, localhost, 127.0.0.1 or
\* 0.0.0.0, or to a subdomain of one of them, is bypassed, whether the parent
\* could be read or not.
C22_PlatformAndLocalBypassed ==
  (Classified /\ InDomains(target.hostname, PlatformDomains \cup LocalHosts)) =>
    decision = "bypass"

\* A loopback address bypassed under a readable, unrelated parent.
C22_Witness ==
  /\ decision = "bypass"
  /\ target = UrlLoopback
  /\ parentCtx = ParentOf(ParentShop)

\* C23: when the parent cannot be read the classifier still returns bypass or
\* proxy, never an error, and the answer is the one of the allow-list and of
\* the other rules.
C23_UnreadableParentStillDecides ==
  (Classified /\ ~parentCtx.available) =>
    /\ decision \in {"bypass", "proxy"}
    /\ decision = "bypass" <=>
         \/ Origin(target) = SelfOrigin
         \/ ~HttpScheme(target)
         \/ ContainsOneOf(target.hostname, PlatformDomains \cup LocalHosts)
         \/ WorkerPath(target)

\* A host related to no list, proxied after the read of the parent failed.
C23_Witness ==
  /\ decision = "proxy"
  /\ target = UrlParentChild
  /\ parentCtx = NoParent

\* C24: the relay passes every FETCH_REQUEST it receives from the worker on to
\* the parent as it is, and every FETCH_RESPONSE it receives on the window on
\* to the worker that controls the page as it is; nothing else reaches the
\* parent or the worker through it, and one receipt makes one post.
C24_RelayForwardsTaggedOnly ==
  [][/\ \A m \in swToClient : RelayToParent(m) =>
          /\ swToClient' = swToClient \ {m}
          /\ hostInbox' = IF m.type = "FETCH_REQUEST" THEN hostInbox \cup {m}
                          ELSE hostInbox
     /\ \A m \in toWindow : RelayToWorker(m) =>
          /\ toWindow' = toWindow \ {m}
          /\ (m.type = "FETCH_RESPONSE" /\ HasController) => toWorker' = toWorker \cup {m}
          /\ m.type # "FETCH_RESPONSE" => toWorker' = toWorker
     /\ \A m \in hostInbox' \ hostInbox :
          m.type = "FETCH_REQUEST" /\ m \in swToClient /\ RelayToParent(m)
     /\ \A m \in toWorker' \ toWorker :
          m.type = "FETCH_RESPONSE" /\ m \in toWindow /\ RelayToWorker(m)]_vars

\* The request of a fetch has reached the parent and the answer to it has
\* reached the worker, nothing being left on the way.
C24_Witness ==
  \E f \in Fetches :
    /\ message[f] \in hostInbox
    /\ \E m \in toWorker : m.type = "FETCH_RESPONSE" /\ m.requestId = requestId[f]
    /\ toWindow = {}
    /\ swToClient = {}

(***************************************************************************)
(* Properties of the registration.                                         *)
(***************************************************************************)
\* The step is a call of navigator.serviceWorker.register.
RequestsRegistration == registerRequests' # registerRequests

\* C25: over any sequence or overlap of calls of initServiceWorker, register is
\* called only while no registration is stored and none is being established,
\* and every call made once a registration is stored returns that registration.
C25_RegistersAtMostOnce ==
  [][\A c \in Calls : InitServiceWorker(c) =>
       /\ RequestsRegistration =>
            /\ swRegistration = NoRegistration
            /\ \A d \in Calls : callStage[d] # "awaiting"
       /\ swRegistration # NoRegistration =>
            /\ callStage'[c] = "returned"
            /\ callResult'[c] = swRegistration]_vars

\* C26: initServiceWorker never throws: a failed registration (no
\* navigator.serviceWorker, or register rejected) returns null and does not
\* store anything, so that the stored registration is empty and
\* isServiceWorkerActive false as long as no registration succeeded, and a
\* later call asks for the registration again.
C26_FailureReturnsNullAndRetries ==
  /\ [][\A c \in Calls :
          /\ RegisterRejects(c) =>
               callResult'[c] = NoRegistration /\ swRegistration' = swRegistration
          /\ (InitServiceWorker(c) /\ swRegistration = NoRegistration) =>
               IF swSupported
               THEN RequestsRegistration /\ callStage'[c] = "awaiting"
               ELSE callResult'[c] = NoRegistration /\ swRegistration' = swRegistration]_vars
  /\ [](/\ \A c \in Calls : callResult[c] \in {"none", NoRegistration, TheRegistration}
        /\ (\A c \in Calls : callResult[c] # TheRegistration) =>
             swRegistration = NoRegistration
        /\ swRegistration = NoRegistration => ~isServiceWorkerActive)

\* Two calls have returned null after a rejected register and a third call has
\* asked for the registration again.
C26_Witness ==
  \E c, d, e \in Calls :
    /\ c # d /\ d # e /\ c # e
    /\ callResult[c] = NoRegistration
    /\ callResult[d] = NoRegistration
    /\ callStage[e] = "awaiting"
    /\ registerRequests = 3
    /\ swRegistration = NoRegistration
    /\ ~isServiceWorkerActive

(***************************************************************************)
(* Properties of urlRewriter.                                              *)
(***************************************************************************)
\* What follows the scheme of the url, up to its first "/".
HostPart(url) ==
  LET i == IndexOf(url, "://")
      rest == IF i = 0 THEN url ELSE SubSeq(url, i + 3, Len(url))
      j == IndexOf(rest, "/")
  IN IF j = 0 THEN rest ELSE SubSeq(rest, 1, j - 1)

\* The server table has an entry for the host.
InServerTable(host) ==
  \E i \in 1..Len(servers) : servers[i].host = host \/ servers[i].ip = host

Retained(t) == Cardinality(DOMAIN t)

\* The step is a set or a prune through the wrapped store.
SetOrPrune ==
  \/ \E p \in CacheKeys, value \in CacheValues : CacheSet(p, value)
  \/ \E nowInput \in PruneInputs : prune(nowInput)

\* C28: with opts.maxSize >= 1 (2 halves), the store retains at most
\* opts.maxSize entries after every set and every prune, whatever reads,
\* writes, tests and deletes came before.
C28_SetAndPruneKeepMaxSize ==
  [][(optMaxSize >= 2 /\ SetOrPrune) => 2 * Retained(proxyTarget') <= optMaxSize]_vars

\* A store wrapped with three entries and maxSize 1 holds, after a set of a
\* fourth value, the written key only.
C28_Witness ==
  /\ optMaxSize = 2
  /\ cacheResult = Returns("set", "b", True)
  /\ proxyTarget = [k \in {"b"} |-> "y"]
  /\ lruOrder = <<<<"b", 3>>>>
  /\ size = 1

\* The milliseconds since the last read, test or write of the entry.
IdleFor(p) == cacheNow - LruGet(lruOrder, p)

\* get and has on an entry left alone for more than the TTL find nothing and
\* remove it.
ExpiresOnAccess(p) ==
  /\ CacheGet(p) => cacheResult'.value = Undefined /\ ~MapHas(proxyTarget', p)
  /\ CacheHas(p) => cacheResult'.value = False /\ ~MapHas(proxyTarget', p)

\* get and has on an entry accessed within the TTL find it and restart its
\* TTL from now.
SlidesOnAccess(p) ==
  /\ CacheGet(p) =>
       /\ cacheResult'.value = proxyTarget[p]
       /\ MapHas(proxyTarget', p)
       /\ LruGet(lruOrder', p) = cacheNow
  /\ CacheHas(p) =>
       /\ cacheResult'.value = True
       /\ MapHas(proxyTarget', p)
       /\ LruGet(lruOrder', p) = cacheNow

\* C29: with opts.ttlMs > 0, get and has on an entry that was not read,
\* tested or written for more than opts.ttlMs return undefined and false and
\* remove the entry; on an entry accessed within opts.ttlMs they return it
\* and its expiry counts from the access.
C29_SlidingTtl ==
  [][\A p \in CacheKeys :
       (optTtlMs > 0 /\ MapHas(proxyTarget, p)) =>
         IF 2 * IdleFor(p) > optTtlMs
           THEN ExpiresOnAccess(p)
           ELSE SlidesOnAccess(p)]_vars

\* The same for a TTL of one millisecond or more (2 halves).
C29_SlidingTtlFromOneMs ==
  [][\A p \in CacheKeys :
       (optTtlMs >= 2 /\ MapHas(proxyTarget, p)) =>
         IF 2 * IdleFor(p) > optTtlMs
           THEN ExpiresOnAccess(p)
           ELSE SlidesOnAccess(p)]_vars

\* With a TTL of one millisecond, an entry left alone for two milliseconds
\* was read, found nothing, and is gone.
C29_ExpiredWitness ==
  /\ optTtlMs = 2
  /\ cacheNow = 3
  /\ cacheResult = Returns("get", "a", Undefined)
  /\ ~MapHas(proxyTarget, "a")
  /\ proxyTarget = [k \in {"b"} |-> "x"]
  /\ lruOrder = <<<<"b", 1>>>>

(***************************************************************************)
(* C27: the guard of the public methods of SdkService.                     *)
(***************************************************************************)
\* init() was not called yet.
InitNotCalled == \A c \in InitCalls : inits[c].stage = "idle"

\* The step is a call of a public method other than init in slot i.
Invoked(i) == invocations[i].stage = "idle" /\ invocations'[i].stage # "idle"

\* C27: every public method other than init that is called before init()
\* was called fails with the "not initialized" error and calls no function
\* of the host SDK; while init() was not called the host SDK is never called.
C27_GuardedBeforeInit ==
  /\ [][\A i \in Invocations :
          (InitNotCalled /\ Invoked(i)) =>
            /\ invocations'[i].stage = "done"
            /\ invocations'[i].outcome = "notInitialized"
            /\ hostCalls' = hostCalls]_vars
  /\ [](InitNotCalled => \A f \in HostFunctions : hostCalls[f] = 0)

\* In the later version, rpc and sign were called before init and both
\* failed with the "not initialized" error.
C27_Witness ==
  /\ InitNotCalled
  /\ laterVersion
  /\ hostKind = "extended"
  /\ invocations[1].method = "rpc"
  /\ invocations[1].outcome = "notInitialized"
  /\ invocations[2].method = "sign"
  /\ invocations[2].outcome = "notInitialized"

(***************************************************************************)
(* C31: the entry is stored before the message is posted.                  *)
(***************************************************************************)
\* The message of fetch f was posted to the window and its timer has not
\* removed the entry yet.
PostedAndNotTimedOut(f) == stage[f] = "posted" /\ timer[f] # "fired"

\* C31: a FETCH_RESPONSE that answers the posted
\* message of a fetch whose timer has not fired finds an entry under the
\* requestId of that message; and a message is posted only after the entry
\* of its fetch was stored.
C31_ResponseFindsEntry ==
  /\ [][\A m \in toWorker : \A f \in Fetches :
          (HandlesResponse(m) /\ PostedAndNotTimedOut(f) /\ requestId[f] = m.requestId)
            => MapHas(pendingRequests, m.requestId)]_vars
  /\ [](\A f \in Fetches : stage[f] = "posted" => timer[f] # "unset")

(***************************************************************************)
(* C33, C32: the shared-label rule and the ordered policy.                 *)
(***************************************************************************)
\* A rule of the classifier other than the shared-label rule bypasses the
\* target under the readable parent.
OtherRuleBypasses(url, parentUrl) ==
  \/ Origin(url) = SelfOrigin
  \/ ~HttpScheme(url)
  \/ Origin(url) = Origin(parentUrl)
  \/ url.hostname = parentUrl.hostname
  \/ StartsWith(Href(url), Origin(parentUrl))
  \/ SubdomainEitherWay(url.hostname, parentUrl.hostname)
  \/ WorkerPath(url)
  \/ ContainsOneOf(url.hostname, PlatformDomains \cup LocalHosts)

PolicyParentRule(url, parentUrl) ==
  \/ Origin(url) = Origin(parentUrl)
  \/ url.hostname = parentUrl.hostname
  \/ StartsWith(Href(url), Origin(parentUrl))
  \/ Cardinality(CommonLabels(url.hostname, parentUrl.hostname)) >= 2
  \/ SubdomainEitherWay(url.hostname, parentUrl.hostname)

\* The ordered policy of the specification, rules 1 to 8: TRUE is bypass.
\* The lists of rules 4 and 7 are matched as substrings, as rule 4 says.
PolicyBypasses(url, parent) ==
  IF Origin(url) = SelfOrigin THEN TRUE
  ELSE IF ~HttpScheme(url) THEN TRUE
  ELSE IF parent.available /\ PolicyParentRule(url, parent.url) THEN TRUE
  ELSE IF ~parent.available
            /\ ContainsOneOf(url.hostname, PlatformDomains \cup {"localhost"}) THEN TRUE
  ELSE IF WorkerPath(url) THEN TRUE
  ELSE IF url.hostname = "localhost" /\ url.port # "" /\ ParseInt(url.port) > 1024
    THEN TRUE
  ELSE IF ContainsOneOf(url.hostname, LocalHosts \cup PlatformDomains) THEN TRUE
  ELSE FALSE

InitSequence == {"init", "emit", "serviceWorker.register"}

\* The initialization sequence has run to its end: 'loaded' was emitted, no
\* call of init is waiting for the host and none has failed.
SequenceCompleted ==
  /\ hostCalls["emit"] >= 1
  /\ \A c \in InitCalls :
       /\ inits[c].stage \notin {"awaitInit", "awaitRegister"}
       /\ inits[c].outcome # "rejected"

\* C34: when a call of init() has resolved, also one made while another was
\* in flight, the initialization sequence of the host SDK has completed; and
\* no function of the sequence is called more than once.
C34_ResolvedInitMeansInitialized ==
  /\ \A c \in InitCalls : inits[c].outcome = "resolved" => SequenceCompleted
  /\ \A f \in InitSequence : hostCalls[f] <= 1

\* A call of init() has failed, and none has resolved or is in flight.
InitFailed ==
  /\ \E c \in InitCalls : inits[c].outcome = "rejected"
  /\ \A c \in InitCalls : inits[c].outcome \notin {"resolved", "pending"}

\* C35: after a failed init() SdkService is uninitialized again: sdk is null,
\* a guarded method called then fails with the "not initialized" error, and
\* a later init() does not return early as already initialized.
C35_FailedInitResets ==
  /\ [](InitFailed => sdk = NoSdk)
  /\ [][\A i \in Invocations :
          (InitFailed /\ Invoked(i)) => invocations'[i].outcome = "notInitialized"]_vars
  /\ [][\A c \in InitCalls :
          (InitFailed /\ SdkInit(c)) =>
            ~(inits'[c].outcome = "resolved" /\ hostCalls' = hostCalls)]_vars

(***************************************************************************)
(* C36: the attempts of one rpc call.                                      *)
(***************************************************************************)
\* The errors of the host that are network or JSON failures.
TransientFailures == {"Failed to fetch", "Unexpected end of JSON input"}

\* The calls of the host rpc that call i of the service has made.
RpcAttempts(i) ==
  IF invocations[i].method = "rpc"
       /\ invocations[i].outcome \notin {"none", "notInitialized"}
    THEN invocations[i].attempt + 1
    ELSE 0

RECURSIVE TotalRpcAttempts(_)
TotalRpcAttempts(calls) ==
  IF calls = {}
    THEN 0
    ELSE LET i == CHOOSE i \in calls : TRUE
         IN RpcAttempts(i) + TotalRpcAttempts(calls \ {i})

\* The call i of rpc is running.
RpcRunning(i) ==
  invocations[i].method = "rpc" /\ invocations[i].stage \in {"awaitHost", "sleeping"}

\* The host settles the promise of attempt n of call i with result: a
\* success returns at once, an error that is not transient and the error of
\* the third attempt are rethrown.
SettledAsClaimed(i, result) ==
  LET call == invocations[i]
      after == invocations'[i]
  IN /\ result \notin HostFailures =>
          after.stage = "done" /\ after.outcome = "returned"
     /\ (result \in HostFailures /\ (result \notin TransientFailures \/ call.attempt = 2)) =>
          after.stage = "done" /\ after.outcome = "threw" /\ after.lastErr = result
     /\ after.attempt = call.attempt
     /\ hostCalls' = hostCalls

PassedToHost(p) ==
  \/ hostCalls'["permissions.check:" \o p] > hostCalls["permissions.check:" \o p]
  \/ hostCalls'["permissions.request:" \o p] > hostCalls["permissions.request:" \o p]

\* The step is the host answering call i that p is granted, or resolving a
\* request of call i that contains p.
GrantedByHost(i, p) ==
  \/ /\ CheckSettles(i, "granted")
     /\ invocations[i].perms[invocations[i].idx] = p
  \/ /\ RequestSettles(i, TRUE)
     /\ p \in SeqRange(invocations[i].missing)

\* C37: a permission the session cache records as granted is not passed to
\* permissions.check or permissions.request again; a permission is recorded
\* only after check returned true for it or a request containing it
\* resolved; a rejected request leaves the cache unchanged and the error
\* reaches the caller of checkAndRequestPermissions.
C37_CachedNeverAskedAgain ==
  /\ [][\A p \in Permissions :
          (laterVersion /\ p \in permissionCache) => ~PassedToHost(p)]_vars
  /\ [][\A p \in Permissions :
          (p \in permissionCache' /\ p \notin permissionCache) =>
            \E i \in Invocations : GrantedByHost(i, p)]_vars
  /\ [][\A i \in Invocations :
          (laterVersion /\ invocations[i].method = "checkAndRequestPermissions"
             /\ RequestSettles(i, FALSE)) =>
            /\ permissionCache' = permissionCache
            /\ invocations'[i].stage = "done"
            /\ invocations'[i].outcome = "threw"]_vars

(***************************************************************************)
(* C38, C39: the order of eviction and the bookkeeping of the LRU store.   *)
(***************************************************************************)
\* The keys of the entries of lruOrder, least recently accessed first.
RecencyOrder(order) == [i \in DOMAIN order |-> order[i][1]]

\* The store after the write of a set and the removal of the expired
\* entries, before the maximum size is enforced.
Written(p, value) ==
  pruneExpired(Cache(ObjectSet(proxyTarget, p, value),
                     touch(lruOrder, p, cacheNow),
                     IF MapHas(proxyTarget, p) THEN size ELSE size + 1),
               cacheNow)

\* The keys of the entries of store c, least recently accessed first.
EntriesByRecency(c) == SelectSeq(RecencyOrder(c.order), LAMBDA k : k \in DOMAIN c.t)

\* The n least recently accessed entries of store c.
LeastRecent(c, n) ==
  {EntriesByRecency(c)[i] : i \in 1..(IF n < Len(EntriesByRecency(c))
                                        THEN n ELSE Len(EntriesByRecency(c)))}

\* The step leaves the keys other than p in the order of recency they had.
OthersKeepOrder(p) ==
  SelectSeq(RecencyOrder(lruOrder'), LAMBDA k : k # p)
    = SelectSeq(RecencyOrder(lruOrder), LAMBDA k : k # p /\ k \in LruKeys(lruOrder'))

\* The step makes p the most recently accessed key.
MostRecent(p) ==
  /\ lruOrder' # <<>>
  /\ RecencyOrder(lruOrder')[Len(lruOrder')] = p

\* The step is a get or a has that finds p.
Hit(p) ==
  \/ CacheGet(p) /\ cacheResult'.value # Undefined
  \/ CacheHas(p) /\ cacheResult'.value = True

\* C38: with maxSize >= 1, a set that takes the store above maxSize evicts
\* exactly the least recently accessed entries in excess of maxSize and
\* never the key just written, where a get or a has that finds a key and a
\* set of it make it the most recently accessed one and leave the order of
\* the others alone.
C38_EvictsLeastRecentlyAccessed ==
  /\ [][\A p \in CacheKeys : \A value \in CacheValues :
          (maxSize >= 1 /\ CacheSet(p, value) /\ Written(p, value).size > maxSize) =>
            /\ DOMAIN proxyTarget' =
                 DOMAIN Written(p, value).t
                   \ LeastRecent(Written(p, value),
                                 Cardinality(DOMAIN Written(p, value).t) - maxSize)
            /\ p \in DOMAIN proxyTarget']_vars
  /\ [][\A p \in CacheKeys :
          (Hit(p) \/ \E value \in CacheValues : CacheSet(p, value)) =>
            /\ OthersKeepOrder(p)
            /\ p \in DOMAIN proxyTarget' => MostRecent(p)]_vars

\* C39: after any sequence of get, set, has, delete and prune, size() is the
\* number of string keys present in the store, and the recency metadata
\* holds exactly those keys, each once.
C39_SizeAndMetadataMatchStore ==
  /\ size = Cardinality(DOMAIN proxyTarget)
  /\ LruKeys(lruOrder) = DOMAIN proxyTarget
  /\ Len(lruOrder) = Cardinality(LruKeys(lruOrder))

=============================================================================
